---- MODULE Spec2Model ----
(***************************************************************************)
(* A model of @ratio-hub/time: the duration-string parser of src/parse.ts, *)
(* the formatter of src/format.ts, and the Duration and Time values built  *)
(* on them.                                                                *)
(*                                                                         *)
(* Text is a sequence of one-character strings.  Numbers are exact signed  *)
(* decimals (sign, little-endian decimal digits, power of ten), with one   *)
(* extra value NaN; the JavaScript doubles of the source agree with them   *)
(* on every value the bounded inputs below can produce.                    *)
(***************************************************************************)
EXTENDS Integers, Sequences, FiniteSets, TLC

VARIABLES
    pc,         \* "calling": a call is about to be made; "returned": a call has ended;
                \* "idle": the caller is between calls
    input,      \* the call: the argument of parseDuration, or the function or method
                \* called with its receiver and arguments
    outcome,    \* what that call returned or threw
    lastIndex,  \* COMPONENT_REGEX.lastIndex, the module-level matcher's scan position
    now,        \* what Date.now() reads
    heap,       \* the Duration and Time objects made so far, in the order they were made
    reads,      \* the clock readings the call made, in order
    parsed      \* what parseDuration gives for each text the callers of Duration and Time
                \* pass, by the matcher position it is called with: worked out once, at
                \* the start, and never changed

vars == <<pc, input, outcome, lastIndex, now, heap, reads, parsed>>

(***************************************************************************)
(* Characters                                                              *)
(***************************************************************************)
DigitChars == <<"0", "1", "2", "3", "4", "5", "6", "7", "8", "9">>

UpperChars == <<"A", "B", "C", "D", "E", "F", "G", "H", "I", "J", "K", "L", "M",
                "N", "O", "P", "Q", "R", "S", "T", "U", "V", "W", "X", "Y", "Z">>

LowerChars == <<"a", "b", "c", "d", "e", "f", "g", "h", "i", "j", "k", "l", "m",
                "n", "o", "p", "q", "r", "s", "t", "u", "v", "w", "x", "y", "z">>

Range(f) == {f[i] : i \in DOMAIN f}

Digits == Range(DigitChars)

Uppers == Range(UpperChars)

Lowers == Range(LowerChars)

\* \d of the regular expressions
IsDigit(c) == c \in Digits

\* [a-zA-Z] of COMPONENT_REGEX
Letters == Uppers \cup Lowers

IsLetter(c) == c \in Letters

\* \s of COMPONENT_REGEX and the characters String.prototype.trim removes
Spaces == {" ", "\t", "\n"}

IsSpace(c) == c \in Spaces

DigitValues == [c \in Digits |-> (CHOOSE i \in DOMAIN DigitChars : DigitChars[i] = c) - 1]

DigitValue(c) == DigitValues[c]

(***************************************************************************)
(* Numbers: [nan, neg, mant, exp] is (-1)^neg * mant * 10^exp, mant a      *)
(* little-endian digit sequence with no zero at either end; the zeros are  *)
(* [neg |-> FALSE, mant |-> <<>>, exp |-> 0] and, for -0, the same with    *)
(* neg |-> TRUE.                                                           *)
(***************************************************************************)
NaN == [nan |-> TRUE, neg |-> FALSE, mant |-> <<>>, exp |-> 0]

Zero == [nan |-> FALSE, neg |-> FALSE, mant |-> <<>>, exp |-> 0]

\* JavaScript -0
NegZero == [nan |-> FALSE, neg |-> TRUE, mant |-> <<>>, exp |-> 0]

RECURSIVE StripHigh(_)
StripHigh(d) ==
    IF d = <<>> \/ d[Len(d)] # 0 THEN d ELSE StripHigh(SubSeq(d, 1, Len(d) - 1))

RECURSIVE LowZeros(_)
LowZeros(d) == IF d = <<>> \/ Head(d) # 0 THEN 0 ELSE 1 + LowZeros(Tail(d))

Normalize(neg, digits, exp) ==
    LET hi == StripHigh(digits)
        z  == LowZeros(hi)
    IN  IF hi = <<>> THEN (IF neg THEN NegZero ELSE Zero)
        ELSE [nan |-> FALSE, neg |-> neg, mant |-> SubSeq(hi, z + 1, Len(hi)), exp |-> exp + z]

RECURSIVE AddDigits(_, _, _)
AddDigits(a, b, carry) ==
    IF a = <<>> /\ b = <<>> THEN (IF carry = 0 THEN <<>> ELSE <<carry>>)
    ELSE LET x == IF a = <<>> THEN 0 ELSE Head(a)
             y == IF b = <<>> THEN 0 ELSE Head(b)
             s == x + y + carry
         IN  <<s % 10>> \o AddDigits(IF a = <<>> THEN a ELSE Tail(a),
                                     IF b = <<>> THEN b ELSE Tail(b), s \div 10)

\* a - b for a >= b
RECURSIVE SubDigits(_, _, _)
SubDigits(a, b, borrow) ==
    IF a = <<>> THEN <<>>
    ELSE LET y == (IF b = <<>> THEN 0 ELSE Head(b)) + borrow
             x == Head(a)
         IN  IF x >= y
             THEN <<x - y>> \o SubDigits(Tail(a), IF b = <<>> THEN b ELSE Tail(b), 0)
             ELSE <<x + 10 - y>> \o SubDigits(Tail(a), IF b = <<>> THEN b ELSE Tail(b), 1)

\* a < b, for digit sequences without high zeros
LessDigits(a, b) ==
    IF Len(a) # Len(b) THEN Len(a) < Len(b)
    ELSE \E i \in 1..Len(a) : a[i] < b[i] /\ \A j \in (i + 1)..Len(a) : a[j] = b[j]

RECURSIVE MulDigit(_, _, _)
MulDigit(a, d, carry) ==
    IF a = <<>> THEN (IF carry = 0 THEN <<>> ELSE <<carry>>)
    ELSE LET p == Head(a) * d + carry
         IN  <<p % 10>> \o MulDigit(Tail(a), d, p \div 10)

RECURSIVE MulDigits(_, _)
MulDigits(a, b) ==
    IF b = <<>> THEN <<>>
    ELSE AddDigits(MulDigit(a, Head(b), 0), <<0>> \o MulDigits(a, Tail(b)), 0)

RECURSIVE ZerosSeq(_)
ZerosSeq(n) == IF n <= 0 THEN <<>> ELSE <<0>> \o ZerosSeq(n - 1)

\* the digits of x rewritten for the power of ten e <= x.exp
Shifted(x, e) == ZerosSeq(x.exp - e) \o x.mant

\* JavaScript unary minus
NumNeg(x) ==
    IF x.nan THEN x ELSE [x EXCEPT !.neg = ~x.neg]

\* JavaScript a + b (a zero sum of opposite signs is +0)
NumAdd(x, y) ==
    IF x.nan \/ y.nan THEN NaN
    ELSE LET e == IF x.exp < y.exp THEN x.exp ELSE y.exp
             a == Shifted(x, e)
             b == Shifted(y, e)
         IN  IF x.neg = y.neg THEN Normalize(x.neg, AddDigits(a, b, 0), e)
             ELSE IF LessDigits(StripHigh(a), StripHigh(b))
                  THEN Normalize(y.neg, SubDigits(b, a, 0), e)
                  ELSE IF StripHigh(a) = StripHigh(b) THEN Zero
                  ELSE Normalize(x.neg, SubDigits(a, b, 0), e)

\* JavaScript a * b
NumMul(x, y) ==
    IF x.nan \/ y.nan THEN NaN
    ELSE Normalize(x.neg # y.neg, MulDigits(x.mant, y.mant), x.exp + y.exp)

\* long division of the digits a, highest first, by the natural n > 0, rem carried in
RECURSIVE DivDigits(_, _, _)
DivDigits(a, n, rem) ==
    IF a = <<>> THEN [q |-> <<>>, r |-> rem]
    ELSE LET cur  == rem * 10 + a[Len(a)]
             rest == DivDigits(SubSeq(a, 1, Len(a) - 1), n, cur % n)
         IN  [q |-> rest.q \o <<cur \div n>>, r |-> rest.r]

\* JavaScript a / n for a natural n > 0 whose quotient is a finite decimal
NumDivExact(x, n) ==
    IF x.nan THEN NaN
    ELSE LET k == CHOOSE k \in 0..n : DivDigits(ZerosSeq(k) \o x.mant, n, 0).r = 0
         IN  Normalize(x.neg, DivDigits(ZerosSeq(k) \o x.mant, n, 0).q, x.exp - k)

RECURSIVE IntDigits(_)
IntDigits(n) == IF n = 0 THEN <<>> ELSE <<n % 10>> \o IntDigits(n \div 10)

\* the number literal m * 10^e, for a natural m
Num(m, e) == Normalize(FALSE, IntDigits(m), e)

\* JavaScript a - b
NumSub(x, y) == NumAdd(x, NumNeg(y))

\* Math.abs
NumAbs(x) == IF x.nan THEN x ELSE [x EXCEPT !.neg = FALSE]

\* |x| < |y|
MagLess(x, y) ==
    LET e == IF x.exp < y.exp THEN x.exp ELSE y.exp
    IN  LessDigits(StripHigh(Shifted(x, e)), StripHigh(Shifted(y, e)))

\* JavaScript a < b: false when either is NaN, and -0 is not below 0
NumLess(x, y) ==
    /\ ~x.nan /\ ~y.nan
    /\ LET xneg == x.neg /\ x.mant # <<>>
           yneg == y.neg /\ y.mant # <<>>
       IN  IF xneg # yneg THEN xneg
           ELSE IF xneg THEN MagLess(y, x) ELSE MagLess(x, y)

\* JavaScript a <= b
NumLessEq(x, y) == ~x.nan /\ ~y.nan /\ ~NumLess(y, x)

\* JavaScript a === b: NaN equals nothing, -0 equals 0
NumEq(x, y) == ~x.nan /\ ~y.nan /\ ~NumLess(x, y) /\ ~NumLess(y, x)

\* the natural number of a digit sequence
RECURSIVE IntOf(_)
IntOf(d) == IF d = <<>> THEN 0 ELSE Head(d) + 10 * IntOf(Tail(d))

\* JavaScript a / b for a non-zero b of a few digits whose quotient is a finite decimal
NumDiv(x, y) ==
    IF x.nan \/ y.nan THEN NaN
    ELSE LET q == NumDivExact([x EXCEPT !.neg = (x.neg # y.neg)], IntOf(y.mant))
         IN  IF q.mant = <<>> THEN q ELSE [q EXCEPT !.exp = q.exp - y.exp]

\* Math.floor
NumFloor(x) ==
    IF x.nan \/ x.exp >= 0 THEN x
    ELSE LET int == Normalize(FALSE, SubSeq(x.mant, 1 - x.exp, Len(x.mant)), 0)
         IN  IF x.neg THEN NumNeg(NumAdd(int, Num(1, 0))) ELSE int

\* long division of the digits a, highest first, by the digits d of a positive
\* integer, with the remainder digits rem carried in: the quotient digits
RECURSIVE LongDiv(_, _, _)
LongDiv(a, d, rem) ==
    IF a = <<>> THEN <<>>
    ELSE LET cur  == StripHigh(<<a[Len(a)]>> \o rem)
             fits(k) == LET p == StripHigh(MulDigit(d, k, 0)) IN p = cur \/ LessDigits(p, cur)
             qd   == CHOOSE k \in 0..9 : fits(k) /\ (k = 9 \/ ~fits(k + 1))
             left == StripHigh(SubDigits(cur, StripHigh(MulDigit(d, qd, 0)), 0))
         IN  LongDiv(SubSeq(a, 1, Len(a) - 1), d, left) \o <<qd>>

\* mutant: Math.floor(x / y)
RoundedQuotient_floor(x, y) ==
    LET e  == IF x.exp < y.exp THEN x.exp ELSE y.exp
    IN  Normalize(FALSE, LongDiv(StripHigh(Shifted(x, e)), StripHigh(Shifted(y, e)), <<>>), 0)

\* Math.round(x / y) for positive x and y: the integer q with q <= x / y + 1/2 < q + 1,
\* which is the floor of (2x + y) / 2y
RoundedQuotient(x, y) ==
    LET e  == IF x.exp < y.exp THEN x.exp ELSE y.exp
        a  == Shifted(x, e)
        b  == Shifted(y, e)
        n  == StripHigh(AddDigits(MulDigit(a, 2, 0), b, 0))
        d  == StripHigh(MulDigit(b, 2, 0))
    IN  Normalize(FALSE, LongDiv(n, d, <<>>), 0)

(***************************************************************************)
(* Text: String.prototype.trim / slice / toLowerCase, parseFloat           *)
(***************************************************************************)
\* the first position q >= p (1-based) of s whose character is not of the class;
\* Len(s) + 1 if none
RunEnd(s, p, class) ==
    CHOOSE q \in p..(Len(s) + 1) :
        /\ q = Len(s) + 1 \/ s[q] \notin class
        /\ \A r \in p..(q - 1) : s[r] \in class

RECURSIVE trimEnd(_)
trimEnd(s) ==
    IF s = <<>> \/ ~IsSpace(s[Len(s)]) THEN s ELSE trimEnd(SubSeq(s, 1, Len(s) - 1))

trimStart(s) == SubSeq(s, RunEnd(s, 1, Spaces), Len(s))

\* mutant: the text is used untrimmed
trim_none(s) == s

trim(s) == trimEnd(trimStart(s))

\* s.slice(from, to) with JavaScript's 0-based, end-exclusive indices
slice(s, from, to) == SubSeq(s, from + 1, to)

LowerOf == [c \in Uppers |-> LowerChars[CHOOSE i \in DOMAIN UpperChars : UpperChars[i] = c]]

toLowerCaseChar(c) == IF c \in Uppers THEN LowerOf[c] ELSE c

\* mutant: the unit is looked up as written
toLowerCase_asWritten(s) == s

toLowerCase(s) == [i \in 1..Len(s) |-> toLowerCaseChar(s[i])]

\* the text as one string value, the form of an object's property key
RECURSIVE Key(_)
Key(s) == IF s = <<>> THEN "" ELSE Head(s) \o Key(Tail(s))

\* the number written by the digit characters ip, a point, and the digit characters fp
Decimal(ip, fp) ==
    LET cs == ip \o fp
        n  == Len(cs)
    IN  Normalize(FALSE, [i \in 1..n |-> DigitValue(cs[n + 1 - i])], 0 - Len(fp))

\* mutant: the fraction is dropped, as parseInt would
parseFloat_integerPart(s) ==
    LET t    == trimStart(s)
        sgn  == t # <<>> /\ Head(t) \in {"-", "+"}
        p    == IF sgn THEN 2 ELSE 1
        q    == RunEnd(t, p, Digits)
        v    == Decimal(SubSeq(t, p, q - 1), <<>>)
    IN  IF q = p THEN NaN
        ELSE IF sgn /\ Head(t) = "-" THEN NumNeg(v) ELSE v

\* parseFloat: the longest prefix [+-]?(digits[.digits] | .digits) after leading white
\* space, NaN when there is none.  (Exponents and "Infinity" are not modelled: both call
\* sites only keep the result of text made of digits, points and one leading minus.)
parseFloat(s) ==
    LET t    == trimStart(s)
        sgn  == t # <<>> /\ Head(t) \in {"-", "+"}
        p    == IF sgn THEN 2 ELSE 1
        q    == RunEnd(t, p, Digits)
        dot  == q <= Len(t) /\ t[q] = "."
        r    == IF dot THEN RunEnd(t, q + 1, Digits) ELSE q
        ip   == SubSeq(t, p, q - 1)
        fp   == IF dot THEN SubSeq(t, q + 1, r - 1) ELSE <<>>
        v    == Decimal(ip, fp)
    IN  IF ip = <<>> /\ fp = <<>> THEN NaN
        ELSE IF sgn /\ Head(t) = "-" THEN NumNeg(v) ELSE v

(***************************************************************************)
(* src/parse.ts                                                            *)
(***************************************************************************)
MS_PER_SECOND == Num(1000, 0)
MS_PER_MINUTE == NumMul(MS_PER_SECOND, Num(60, 0))
MS_PER_HOUR == NumMul(MS_PER_MINUTE, Num(60, 0))
MS_PER_DAY == NumMul(MS_PER_HOUR, Num(24, 0))
MS_PER_WEEK == NumMul(MS_PER_DAY, Num(7, 0))
MS_PER_YEAR == NumMul(MS_PER_DAY, Num(36525, 0 - 2))
MS_PER_MONTH == NumDivExact(MS_PER_YEAR, 12)

UNIT_MAP ==
    [milliseconds |-> Num(1, 0), millisecond |-> Num(1, 0), msecs |-> Num(1, 0),
     msec |-> Num(1, 0), ms |-> Num(1, 0),
     seconds |-> MS_PER_SECOND, second |-> MS_PER_SECOND, secs |-> MS_PER_SECOND,
     sec |-> MS_PER_SECOND, s |-> MS_PER_SECOND,
     minutes |-> MS_PER_MINUTE, minute |-> MS_PER_MINUTE, mins |-> MS_PER_MINUTE,
     min |-> MS_PER_MINUTE, m |-> MS_PER_MINUTE,
     hours |-> MS_PER_HOUR, hour |-> MS_PER_HOUR, hrs |-> MS_PER_HOUR,
     hr |-> MS_PER_HOUR, h |-> MS_PER_HOUR,
     days |-> MS_PER_DAY, day |-> MS_PER_DAY, d |-> MS_PER_DAY,
     weeks |-> MS_PER_WEEK, week |-> MS_PER_WEEK, w |-> MS_PER_WEEK,
     months |-> MS_PER_MONTH, month |-> MS_PER_MONTH, mo |-> MS_PER_MONTH,
     years |-> MS_PER_YEAR, year |-> MS_PER_YEAR, yrs |-> MS_PER_YEAR,
     yr |-> MS_PER_YEAR, y |-> MS_PER_YEAR]

\* UNIT_MAP[unit]: an own property, else one inherited from Object.prototype, else
\* undefined.  A unit is lowercased ASCII letters, and "constructor" is the one such name
\* Object.prototype defines (its value is the function Object).
ObjectPrototypeKeys == {"constructor"}

UNIT_MAP_get(unit) ==
    IF unit \in DOMAIN UNIT_MAP THEN [type |-> "number", num |-> UNIT_MAP[unit]]
    ELSE IF unit \in ObjectPrototypeKeys THEN [type |-> "function", num |-> NaN]
    ELSE [type |-> "undefined", num |-> NaN]

\* COMPONENT_REGEX = /(-?\d+\.?\d*)\s*([a-zA-Z]*)/g can match at 1-based position p
MatchesAt(s, p) ==
    \/ IsDigit(s[p])
    \/ s[p] = "-" /\ p + 1 <= Len(s) /\ IsDigit(s[p + 1])

\* COMPONENT_REGEX.exec(s) with COMPONENT_REGEX.lastIndex = from: the leftmost match at
\* or after from, every quantifier greedy; index and end are 0-based as in JavaScript,
\* end is the lastIndex exec leaves (0 when there is no match)
COMPONENT_REGEX_exec(s, from) ==
    IF \A p \in (from + 1)..Len(s) : ~MatchesAt(s, p)
    THEN [found |-> FALSE, index |-> 0, end |-> 0, numStr |-> <<>>, unitStr |-> <<>>]
    ELSE LET p  == CHOOSE p \in (from + 1)..Len(s) :
                       MatchesAt(s, p) /\ \A r \in (from + 1)..(p - 1) : ~MatchesAt(s, r)
             d1 == IF s[p] = "-" THEN p + 1 ELSE p
             d2 == RunEnd(s, d1, Digits)
             d3 == IF d2 <= Len(s) /\ s[d2] = "." THEN RunEnd(s, d2 + 1, Digits) ELSE d2
             w  == RunEnd(s, d3, Spaces)
             u  == RunEnd(s, w, Letters)
         IN  [found |-> TRUE, index |-> p - 1, end |-> u - 1,
              numStr |-> SubSeq(s, p, d3 - 1), unitStr |-> SubSeq(s, w, u - 1)]

\* /^[\d.]+$/.test(s)
IsDigitsAndDots(s) == s # <<>> /\ \A i \in 1..Len(s) : IsDigit(s[i]) \/ s[i] = "."

Returned(v) ==
    [kind |-> "return", value |-> v, message |-> "", detail |-> <<>>, from |-> <<>>]

\* an Error whose text is the message, the quoted detail and, when from is not empty,
\* the quoted original input from
Thrown(message, detail, from) ==
    [kind |-> "throw", value |-> NaN, message |-> message, detail |-> detail, from |-> from]

\* mutant: each component overwrites the total
Accumulate_overwrite(totalMs, num, multiplier) ==
    IF multiplier.type = "number" THEN NumMul(num, multiplier.num) ELSE NaN

\* totalMs += num * multiplier: a multiplier that is no number makes the product NaN
Accumulate(totalMs, num, multiplier) ==
    NumAdd(totalMs, IF multiplier.type = "number" THEN NumMul(num, multiplier.num) ELSE NaN)

\* mutant: the skipped text is not trimmed
GapBefore_untrimmed(parseStr, last, match) == slice(parseStr, last, match.index)

\* parseStr.slice(lastIndex, match.index).trim(): the text skipped before a match
GapBefore(parseStr, last, match) == trim(slice(parseStr, last, match.index))

\* mutant: the text after the last match is not looked at
Trailing_ignored(parseStr, last) == <<>>

\* parseStr.slice(lastIndex).trim(): the text left after the last match
Trailing(parseStr, last) == trim(slice(parseStr, last, Len(parseStr)))

\* mutant: a scan that matched nothing returns its total
NothingMatched_never(matched) == FALSE

\* if (!matched) after the scan
NothingMatched(matched) == ~matched

\* mutant: a component without unit letters has no unit
DefaultUnit_none(lowered) == Key(lowered)

\* (unitStr ?? '').toLowerCase() || 'ms'
DefaultUnit(lowered) == IF lowered = <<>> THEN "ms" ELSE Key(lowered)

\* the while loop of parseDuration and the code after it, from the loop head with the
\* matcher at re; gives the outcome and the lastIndex the matcher is left with
RECURSIVE ComponentScan(_, _, _, _, _, _, _)
ComponentScan(chars, parseStr, isNegative, re, last, totalMs, matched) ==
    LET match == COMPONENT_REGEX_exec(parseStr, re)
    IN  IF ~match.found
        THEN LET trailing == Trailing(parseStr, last)
             IN  [lastIndex |-> 0,
                  outcome |->
                      IF trailing # <<>> THEN Thrown("unexpected characters", trailing, chars)
                      ELSE IF NothingMatched(matched) THEN Thrown("could not parse", <<>>, chars)
                      ELSE Returned(IF isNegative THEN NumNeg(totalMs) ELSE totalMs)]
        ELSE LET gap        == GapBefore(parseStr, last, match)
                 num        == parseFloat(match.numStr)
                 lowered    == toLowerCase(match.unitStr)
                 unit       == DefaultUnit(lowered)
                 multiplier == UNIT_MAP_get(unit)
             IN  IF gap # <<>>
                 THEN [lastIndex |-> match.end, outcome |-> Thrown("unexpected characters", gap, chars)]
                 ELSE IF match.numStr = <<>>
                 THEN ComponentScan(chars, parseStr, isNegative, match.end, match.end, totalMs, matched)
                 ELSE IF num.nan
                 THEN [lastIndex |-> match.end, outcome |-> Thrown("invalid number", match.numStr, chars)]
                 ELSE IF multiplier.type = "undefined"
                 THEN [lastIndex |-> match.end, outcome |-> Thrown("unknown unit", match.unitStr, chars)]
                 ELSE ComponentScan(chars, parseStr, isNegative, match.end, match.end,
                                    Accumulate(totalMs, num, multiplier), TRUE)

\* mutant: the minus is stripped like the plus
StripSign_neverNegative(str) ==
    IF Head(str) \in {"-", "+"}
    THEN [isNegative |-> FALSE, parseStr |-> trim(slice(str, 1, Len(str)))]
    ELSE [isNegative |-> FALSE, parseStr |-> str]

\* the leading sign of the trimmed text: what is left to parse and whether to negate
StripSign(str) ==
    IF Head(str) = "-" THEN [isNegative |-> TRUE, parseStr |-> trim(slice(str, 1, Len(str)))]
    ELSE IF Head(str) = "+" THEN [isNegative |-> FALSE, parseStr |-> trim(slice(str, 1, Len(str)))]
    ELSE [isNegative |-> FALSE, parseStr |-> str]

\* mutant: the matcher keeps the position the previous call left
ResetLastIndex_kept(re) == re

\* COMPONENT_REGEX.lastIndex = 0 before the scan
ResetLastIndex(re) == 0

\* the bare-number test of parseDuration
IsBareNumber(parseStr) == ~parseFloat(parseStr).nan /\ IsDigitsAndDots(parseStr)

\* parseDuration(inp) called with COMPONENT_REGEX.lastIndex = re
parseDuration(inp, re) ==
    IF inp.type # "string"
    THEN [lastIndex |-> re, outcome |-> Thrown("expected string", <<>>, <<>>)]
    ELSE LET str == trim(inp.chars)
         IN  IF str = <<>>
             THEN [lastIndex |-> re, outcome |-> Thrown("empty string", <<>>, <<>>)]
             ELSE LET sg == StripSign(str)
                  IN  IF IsBareNumber(sg.parseStr)
                      THEN [lastIndex |-> re,
                            outcome |-> Returned(IF sg.isNegative
                                                 THEN NumNeg(parseFloat(sg.parseStr))
                                                 ELSE parseFloat(sg.parseStr))]
                      ELSE ComponentScan(inp.chars, sg.parseStr, sg.isNegative,
                                         ResetLastIndex(re), 0, Zero, FALSE)

(***************************************************************************)
(* src/format.ts                                                           *)
(***************************************************************************)
\* the digits of a digit sequence as characters, highest first
RECURSIVE DigitText(_)
DigitText(d) ==
    IF d = <<>> THEN <<>> ELSE <<DigitChars[d[Len(d)] + 1]>> \o DigitText(SubSeq(d, 1, Len(d) - 1))

\* `${x}`, the text of a number in a template literal (Number.prototype.toString), for
\* the magnitudes written without an exponent: 0 or 1e-7 < |x| < 1e21
NumToString(x) ==
    IF x.nan THEN <<"N", "a", "N">>
    ELSE IF x.mant = <<>> THEN <<"0">>
    ELSE LET n    == Len(x.mant)
             k    == 0 - x.exp
             body == IF x.exp >= 0 THEN DigitText(ZerosSeq(x.exp) \o x.mant)
                     ELSE IF n > k
                          THEN DigitText(SubSeq(x.mant, k + 1, n)) \o <<".">>
                               \o DigitText(SubSeq(x.mant, 1, k))
                          ELSE <<"0", ".">> \o DigitText(x.mant \o ZerosSeq(k - n))
         IN  (IF x.neg THEN <<"-">> ELSE <<>>) \o body

\* the unit descriptors, largest first
UNITS ==
    <<
      [ms |-> MS_PER_YEAR, short |-> <<"y">>,
       long |-> <<"y", "e", "a", "r">>,
       longPlural |-> <<"y", "e", "a", "r", "s">>],
      [ms |-> MS_PER_MONTH, short |-> <<"m", "o">>,
       long |-> <<"m", "o", "n", "t", "h">>,
       longPlural |-> <<"m", "o", "n", "t", "h", "s">>],
      [ms |-> MS_PER_WEEK, short |-> <<"w">>,
       long |-> <<"w", "e", "e", "k">>,
       longPlural |-> <<"w", "e", "e", "k", "s">>],
      [ms |-> MS_PER_DAY, short |-> <<"d">>,
       long |-> <<"d", "a", "y">>,
       longPlural |-> <<"d", "a", "y", "s">>],
      [ms |-> MS_PER_HOUR, short |-> <<"h">>,
       long |-> <<"h", "o", "u", "r">>,
       longPlural |-> <<"h", "o", "u", "r", "s">>],
      [ms |-> MS_PER_MINUTE, short |-> <<"m">>,
       long |-> <<"m", "i", "n", "u", "t", "e">>,
       longPlural |-> <<"m", "i", "n", "u", "t", "e", "s">>],
      [ms |-> MS_PER_SECOND, short |-> <<"s">>,
       long |-> <<"s", "e", "c", "o", "n", "d">>,
       longPlural |-> <<"s", "e", "c", "o", "n", "d", "s">>],
      [ms |-> Num(1, 0), short |-> <<"m", "s">>,
       long |-> <<"m", "i", "l", "l", "i", "s", "e", "c", "o", "n", "d">>,
       longPlural |-> <<"m", "i", "l", "l", "i", "s", "e", "c", "o", "n", "d", "s">>]
    >>

\* mutant: the sign is dropped
Sign_never(ms) == <<>>

\* const sign = ms < 0 ? '-' : ''
Sign(ms) == IF NumLess(ms, Zero) THEN <<"-">> ELSE <<>>

\* mutant: the name is always the plural
UnitName_alwaysPlural(value, unit) == unit.longPlural

\* const unitName = value === 1 ? unit.long : unit.longPlural
UnitName(value, unit) == IF NumEq(value, Num(1, 0)) THEN unit.long ELSE unit.longPlural

\* the units the loop of humanize accepts: absMs >= unit.ms
FittingUnits(absMs) == {i \in DOMAIN UNITS : NumLessEq(UNITS[i].ms, absMs)}

\* humanize(ms, { long })
humanize(ms, long) ==
    LET absMs == NumAbs(ms)
        sign  == Sign(ms)
        fit   == FittingUnits(absMs)
    IN  IF NumEq(absMs, Zero)
        THEN (IF long THEN <<"0", " ">> \o UNITS[8].longPlural ELSE <<"0">> \o UNITS[8].short)
        ELSE IF fit # {}
        THEN LET unit  == UNITS[CHOOSE i \in fit : \A j \in fit : i <= j]
                 value == RoundedQuotient(absMs, unit.ms)
             IN  IF long THEN sign \o NumToString(value) \o <<" ">> \o UnitName(value, unit)
                 ELSE sign \o NumToString(value) \o unit.short
        ELSE IF long THEN sign \o NumToString(absMs) \o <<" ">> \o UNITS[8].longPlural
             ELSE sign \o NumToString(absMs) \o UNITS[8].short

\* mutant: the threshold itself is still a moment
BelowThreshold_inclusive(absDiff) == NumLessEq(absDiff, NumMul(MS_PER_SECOND, Num(10, 0)))

\* absDiff < threshold, with threshold = MS_PER_SECOND * 10
BelowThreshold(absDiff) == NumLess(absDiff, NumMul(MS_PER_SECOND, Num(10, 0)))

\* formatRelative(diffMs, { long })
formatRelative(diffMs, long) ==
    LET absDiff == NumAbs(diffMs)
    IN  IF BelowThreshold(absDiff)
        THEN (IF NumLessEq(Zero, diffMs)
              THEN <<"i", "n", " ", "a", " ", "m", "o", "m", "e", "n", "t">>
              ELSE <<"j", "u", "s", "t", " ", "n", "o", "w">>)
        ELSE LET duration == humanize(absDiff, long)
             IN  IF NumLess(Zero, diffMs) THEN <<"i", "n", " ">> \o duration
                 ELSE duration \o <<" ", "a", "g", "o">>

(***************************************************************************)
(* Duration (src/types.ts) and Time (src/unnamed/part_002): an object is   *)
(* its class and its private field #ms; a reference is an index into the   *)
(* sequence of objects made so far                                         *)
(***************************************************************************)
\* new Duration(ms)
Duration(ms) == [class |-> "Duration", ms |-> ms]

\* mutant: the constructor stores the value as given
Time_unfloored(ms) == [class |-> "Time", ms |-> ms]

\* new Time(ms)
Time(ms) == [class |-> "Time", ms |-> NumFloor(ms)]

\* mutant: the method also stores the new count in its receiver
Allocated_receiverOverwritten(h, self, obj) ==
    Append(IF self \in DOMAIN h THEN [h EXCEPT ![self] = obj] ELSE h, obj)

\* the objects after a constructor call made in a method of the object self (0: in a
\* static method): #ms is readonly, so every object made before is as it was
Allocated(h, self, obj) == Append(h, obj)

\* an argument that is the object j
Ref(j) == [type |-> "object", chars |-> <<>>, ref |-> j]

\* an object with a toMillis method: every Duration and every Time
isDurationLike(inp) == inp.type = "object" /\ "ref" \in DOMAIN inp

\* normalizeToMillis(inp) for an inp that is no string, with the objects h
normalizeObject(inp, re, h) ==
    IF isDurationLike(inp)
    THEN [lastIndex |-> re, outcome |-> Returned(h[inp.ref].ms)]
    ELSE [lastIndex |-> re, outcome |-> Thrown("invalid duration input", <<inp.type>>, <<>>)]

\* normalizeToMillis(inp) with the objects h, called with COMPONENT_REGEX.lastIndex = re
normalizeToMillis(inp, re, h) ==
    IF inp.type = "string" THEN parseDuration(inp, re) ELSE normalizeObject(inp, re, h)

\* mutant: if (!n)
DivisorIsZero_falsy(n) == n.nan \/ NumEq(n, Zero)

\* n === 0 of Duration.divide
DivisorIsZero(n) == NumEq(n, Zero)

\* mutant: greaterThanOrEqual and lessThanOrEqual compare strictly
DurationCompares_strict(op, a, b) ==
    CASE op = "equals" -> NumEq(a, b)
      [] op = "greaterThan" -> NumLess(b, a)
      [] op = "lessThan" -> NumLess(a, b)
      [] op = "greaterThanOrEqual" -> NumLess(b, a)
      [] op = "lessThanOrEqual" -> NumLess(a, b)

\* the comparisons of Duration, by method name
DurationCompares(op, a, b) ==
    CASE op = "equals" -> NumEq(a, b)
      [] op = "greaterThan" -> NumLess(b, a)
      [] op = "lessThan" -> NumLess(a, b)
      [] op = "greaterThanOrEqual" -> NumLessEq(b, a)
      [] op = "lessThanOrEqual" -> NumLessEq(a, b)

\* mutant: the present moment is past
isPast_orNow(ms, clock) == NumLessEq(ms, clock)

\* Time.isPast with Date.now() reading clock
isPast(ms, clock) == NumLess(ms, clock)

\* Time.isFuture with Date.now() reading clock
isFuture(ms, clock) == NumLess(clock, ms)

\* Time.equals on the counts
equals(ms, otherMs) == NumEq(ms, otherMs)

\* mutant: the difference is taken the other way round
diff_reversed(ms, otherMs) == NumSub(otherMs, ms)

\* this.#ms - otherMs of Time.diff
diff(ms, otherMs) == NumSub(ms, otherMs)

\* mutant: expiresWithin looks at the distance, whichever side of the clock
expiresWithin_eitherSide(ms, windowMs, first, later) ==
    NumLessEq(NumAbs(NumSub(ms, later)), windowMs)

\* Time.expiresWithin for a duration of windowMs, isFuture() reading the clock as first
\* and timeUntilExpiry reading it as later
expiresWithin(ms, windowMs, first, later) ==
    isFuture(ms, first) /\ NumLessEq(NumSub(ms, later), windowMs)

\* mutant: expiredWithin looks at the distance, whichever side of the clock
expiredWithin_eitherSide(ms, windowMs, first, later) ==
    NumLessEq(NumAbs(NumSub(later, ms)), windowMs)

\* Time.expiredWithin for a duration of windowMs, isPast() reading the clock as first
\* and timeSinceExpiry reading it as later
expiredWithin(ms, windowMs, first, later) ==
    isPast(ms, first) /\ NumLessEq(NumSub(later, ms), windowMs)

\* mutant: toSeconds rounds to the nearest second
toSeconds_rounded(ms) == NumFloor(NumAdd(NumDiv(ms, MS_PER_SECOND), Num(5, 0 - 1)))

\* Time.toSeconds
toSeconds(ms) == NumFloor(NumDiv(ms, MS_PER_SECOND))

\* mutant: the window keeps its sign
WindowMs_signed(v) == v

\* windowMs of Time.isWithin
WindowMs(v) == NumAbs(v)

\* diff <= windowMs of Time.isWithin
isWithin(ms, windowMs, anchorMs) == NumLessEq(NumAbs(NumSub(ms, anchorMs)), windowMs)

(***************************************************************************)
(* The calls the model makes                                               *)
(***************************************************************************)
\* the pieces an input text is put together from
Pieces ==
    {<<"1">>, <<"3", "0", "m">>, <<"1", "h">>, <<"h">>, <<".", "5">>, <<".">>, <<"-">>,
     <<"+">>, <<" ">>, <<",">>, <<"x">>,
     <<"c", "o", "n", "s", "t", "r", "u", "c", "t", "o", "r">>}

\* an input text has at most MaxPieces pieces
MaxPieces == 3

RECURSIVE Concats(_)
Concats(n) ==
    IF n = 0 THEN {<<>>}
    ELSE LET shorter == Concats(n - 1)
         IN  shorter \cup {t \o p : t \in shorter, p \in Pieces}

\* the spellings of the unit table, as text
UnitTokens ==
    {<<"m", "i", "l", "l", "i", "s", "e", "c", "o", "n", "d", "s">>,
     <<"m", "i", "l", "l", "i", "s", "e", "c", "o", "n", "d">>, <<"m", "s", "e", "c", "s">>,
     <<"m", "s", "e", "c">>, <<"m", "s">>, <<"s", "e", "c", "o", "n", "d", "s">>,
     <<"s", "e", "c", "o", "n", "d">>, <<"s", "e", "c", "s">>, <<"s", "e", "c">>, <<"s">>,
     <<"m", "i", "n", "u", "t", "e", "s">>, <<"m", "i", "n", "u", "t", "e">>,
     <<"m", "i", "n", "s">>, <<"m", "i", "n">>, <<"m">>, <<"h", "o", "u", "r", "s">>,
     <<"h", "o", "u", "r">>, <<"h", "r", "s">>, <<"h", "r">>, <<"h">>, <<"d", "a", "y", "s">>,
     <<"d", "a", "y">>, <<"d">>, <<"w", "e", "e", "k", "s">>, <<"w", "e", "e", "k">>, <<"w">>,
     <<"m", "o", "n", "t", "h", "s">>, <<"m", "o", "n", "t", "h">>, <<"m", "o">>,
     <<"y", "e", "a", "r", "s">>, <<"y", "e", "a", "r">>, <<"y", "r", "s">>, <<"y", "r">>,
     <<"y">>}

UpperOf == [c \in Lowers |-> UpperChars[CHOOSE i \in DOMAIN LowerChars : LowerChars[i] = c]]

toUpperCaseChar(c) == IF c \in Lowers THEN UpperOf[c] ELSE c

RECURSIVE CaseVariants(_)
CaseVariants(s) ==
    IF s = <<>> THEN {<<>>}
    ELSE {<<c>> \o r : c \in {Head(s), toUpperCaseChar(Head(s))}, r \in CaseVariants(Tail(s))}

Text(chars) == [type |-> "string", chars |-> chars]

\* a value that is no string, by its typeof
NonText(typeof) == [type |-> typeof, chars |-> <<>>]

Inputs ==
    {Text(t) : t \in Concats(MaxPieces)}
    \cup {Text(<<"1">> \o v) : v \in UNION {CaseVariants(u) : u \in UnitTokens}}
    \cup {NonText("number"), NonText("object"), NonText("undefined")}

\* in a run of several calls an input text has at most MaxCallPieces pieces
MaxCallPieces == 2

CallInputs ==
    {Text(t) : t \in Concats(MaxCallPieces)}
    \cup {NonText("number"), NonText("object"), NonText("undefined")}

NoOutcome == [kind |-> "none", value |-> NaN, message |-> "", detail |-> <<>>, from |-> <<>>]

\* the clock reading at the start, in milliseconds
ClockStart == 10

\* no object has been made and the clock has not been read
NoValues ==
    /\ now = ClockStart
    /\ heap = <<>>
    /\ reads = <<>>
    /\ parsed = <<>>

\* the module is loaded and parseDuration is about to be called once, with any input
Init ==
    /\ pc = "calling"
    /\ input \in Inputs
    /\ outcome = NoOutcome
    /\ lastIndex = 0
    /\ NoValues

\* the same, for a run of several calls
InitCalls ==
    /\ pc = "calling"
    /\ input \in CallInputs
    /\ outcome = NoOutcome
    /\ lastIndex = 0
    /\ NoValues

\* the call parseDuration(input), from its entry to its return or throw
Call ==
    /\ pc = "calling"
    /\ LET r == parseDuration(input, lastIndex)
       IN  /\ outcome' = r.outcome
           /\ lastIndex' = r.lastIndex
    /\ pc' = "returned"
    /\ UNCHANGED <<input, now, heap, reads, parsed>>

\* the caller goes on to call parseDuration(inp); the matcher keeps its position
Again(inp) ==
    /\ pc = "returned"
    /\ pc' = "calling"
    /\ input' = inp
    /\ outcome' = NoOutcome
    /\ UNCHANGED <<lastIndex, now, heap, reads, parsed>>

Next == Call

Spec == Init /\ [][Next]_vars

NextCalls ==
    \/ Call
    \/ \E inp \in CallInputs : Again(inp)

SpecCalls == InitCalls /\ [][NextCalls]_vars

\* the formatter is given the halves of each unit up to MaxCount units, each also one
\* millisecond more and less, the 10-second threshold of formatRelative and its
\* neighbours, both zeros, NaN, and the negative of each
MaxCount == 2

Magnitudes ==
    {NumAbs(NumAdd(NumMul(UNITS[i].ms, Num(5 * k, 0 - 1)), o)) :
        i \in DOMAIN UNITS, k \in 1..(2 * MaxCount),
        o \in {Zero, Num(1, 0), NumNeg(Num(1, 0))}}
    \cup {Zero, Num(9999, 0), Num(10000, 0), Num(10001, 0), Num(11000, 0)}

FormatMs == Magnitudes \cup {NumNeg(m) : m \in Magnitudes} \cup {NaN}

FormatInputs == [fn : {"humanize", "formatRelative"}, ms : FormatMs, long : BOOLEAN]

\* humanize or formatRelative is about to be called once, with any number and option
InitFormat ==
    /\ pc = "calling"
    /\ input \in FormatInputs
    /\ outcome = NoOutcome
    /\ lastIndex = 0
    /\ NoValues

\* the call humanize(input.ms, { long: input.long })
HumanizeCall ==
    /\ pc = "calling"
    /\ input.fn = "humanize"
    /\ outcome' = Returned(humanize(input.ms, input.long))
    /\ pc' = "returned"
    /\ UNCHANGED <<input, lastIndex, now, heap, reads, parsed>>

\* the call formatRelative(input.ms, { long: input.long })
FormatRelativeCall ==
    /\ pc = "calling"
    /\ input.fn = "formatRelative"
    /\ outcome' = Returned(formatRelative(input.ms, input.long))
    /\ pc' = "returned"
    /\ UNCHANGED <<input, lastIndex, now, heap, reads, parsed>>

NextFormat == HumanizeCall \/ FormatRelativeCall

SpecFormat == InitFormat /\ [][NextFormat]_vars

\* a run makes at most MaxObjects objects and the clock advances at most MaxTicks
\* milliseconds
MaxObjects == 3

MaxTicks == 1

\* the duration texts given: 1 ms by the scan, -0.5 as a signed bare number, a text that
\* throws inside the scan and leaves the matcher advanced, and a blank one
DurationTexts == {<<"1", "m", "s">>, <<"-", ".", "5">>, <<"1", "x">>, <<" ">>}

\* the numbers given to Duration.milliseconds
DurationCounts == {Zero, NaN}

\* the numbers given to multiply and divide
Scalars == {Zero, NegZero, NumNeg(Num(2, 0)), NaN}

\* the numbers given to Time.millis
TimeCounts == {Num(115, 0 - 1), Num(11, 0)}

\* the numbers given to Time.seconds
SecondCounts == {Zero, Num(115, 0 - 4)}

\* what getTime() of a Date given gives: a whole number, or NaN for an Invalid Date
Dates == {Num(11, 0), NaN}

\* the texts given to Time.iso, each with the time value the host's Date gives it
IsoTexts ==
    {[text |-> "1970-01-01T00:00:00.011Z", time |-> Num(11, 0)],
     [text |-> "soon", time |-> NaN]}

IsDuration(i) == i \in DOMAIN heap /\ heap[i].class = "Duration"

IsTime(i) == i \in DOMAIN heap /\ heap[i].class = "Time"

\* what can be passed as a duration: a text, a Duration made before, or a number
DurationArgs ==
    {Text(t) : t \in DurationTexts}
    \cup {Ref(j) : j \in {k \in DOMAIN heap : heap[k].class = "Duration"}}
    \cup {NonText("number")}

\* what can be passed as an anchor: a Time made before, or 0 for none
Anchors == {k \in DOMAIN heap : heap[k].class = "Time"} \cup {0}

\* the clock readings a later Date.now() of the same call can give
Later == {c \in now..(ClockStart + MaxTicks) : TRUE}

\* a call of op on the object self (0: a static method or a function) with the
\* duration arg, the anchor of (0: none) and the number n
CallOf(op, self, arg, of, n) == [op |-> op, self |-> self, arg |-> arg, of |-> of, n |-> n]

NoCall == CallOf("none", 0, NonText("undefined"), 0, NaN)

\* normalizeToMillis of each given text at each position the matcher can be left at
ParsedTexts ==
    [t \in DurationTexts |->
        [re \in 0..(CHOOSE n \in 0..8 : \A u \in DurationTexts : Len(u) <= n /\
                        \E v \in DurationTexts : Len(v) = n) |->
            normalizeToMillis(Text(t), re, <<>>)]]

\* the module is loaded, nothing has been called
InitValues ==
    /\ pc = "idle"
    /\ input = NoCall
    /\ outcome = NoOutcome
    /\ lastIndex = 0
    /\ now = ClockStart
    /\ heap = <<>>
    /\ reads = <<>>
    /\ parsed = ParsedTexts

\* the call ends with the outcome out, the matcher at re, the objects made, the clock at
\* its last reading and the readings rds taken
Ends(call, out, re, made, clock, rds) ==
    /\ pc' = "returned"
    /\ input' = call
    /\ outcome' = out
    /\ lastIndex' = re
    /\ heap' = made
    /\ now' = clock
    /\ reads' = rds
    /\ UNCHANGED parsed

\* normalizeToMillis(d) in the present state
Normalized(d) ==
    IF d.type = "string" THEN parsed[d.chars][lastIndex]
    ELSE normalizeObject(d, lastIndex, heap)

\* the call ends as normalizeToMillis threw
Throws(call, r) == Ends(call, r.outcome, r.lastIndex, heap, now, <<>>)

\* the call returns the new object obj
Makes(call, re, obj, clock, rds) ==
    /\ Len(heap) < MaxObjects
    /\ Ends(call, Returned(Len(heap) + 1), re, Allocated(heap, call.self, obj), clock, rds)

\* the call returns the boolean or number v
Answers(call, re, v, clock, rds) == Ends(call, Returned(v), re, heap, clock, rds)

\* Duration.milliseconds(n)
DurationMilliseconds(n) ==
    /\ pc = "idle"
    /\ Makes(CallOf("Duration.milliseconds", 0, NonText("undefined"), 0, n),
             lastIndex, Duration(n), now, <<>>)

\* dur(d)
Dur(d) ==
    LET call == CallOf("dur", 0, d, 0, NaN)
        r    == Normalized(d)
    IN  /\ pc = "idle"
        /\ IF r.outcome.kind = "throw" THEN Throws(call, r)
           ELSE Makes(call, r.lastIndex, Duration(r.outcome.value), now, <<>>)

\* d{i}.add(d)
DurationAdd(i, d) ==
    LET call == CallOf("Duration.add", i, d, 0, NaN)
        r    == Normalized(d)
    IN  /\ pc = "idle"
        /\ IsDuration(i)
        /\ IF r.outcome.kind = "throw" THEN Throws(call, r)
           ELSE Makes(call, r.lastIndex, Duration(NumAdd(heap[i].ms, r.outcome.value)), now, <<>>)

\* d{i}.subtract(d)
DurationSubtract(i, d) ==
    LET call == CallOf("Duration.subtract", i, d, 0, NaN)
        r    == Normalized(d)
    IN  /\ pc = "idle"
        /\ IsDuration(i)
        /\ IF r.outcome.kind = "throw" THEN Throws(call, r)
           ELSE Makes(call, r.lastIndex, Duration(NumSub(heap[i].ms, r.outcome.value)), now, <<>>)

\* d{i}.multiply(n)
DurationMultiply(i, n) ==
    /\ pc = "idle"
    /\ IsDuration(i)
    /\ Makes(CallOf("Duration.multiply", i, NonText("undefined"), 0, n),
             lastIndex, Duration(NumMul(heap[i].ms, n)), now, <<>>)

\* d{i}.divide(n)
DurationDivide(i, n) ==
    LET call == CallOf("Duration.divide", i, NonText("undefined"), 0, n)
    IN  /\ pc = "idle"
        /\ IsDuration(i)
        /\ IF DivisorIsZero(n)
           THEN Ends(call, Thrown("Cannot divide duration by zero", <<>>, <<>>),
                     lastIndex, heap, now, <<>>)
           ELSE Makes(call, lastIndex, Duration(NumDiv(heap[i].ms, n)), now, <<>>)

\* d{i}.abs()
DurationAbs(i) ==
    /\ pc = "idle"
    /\ IsDuration(i)
    /\ Makes(CallOf("Duration.abs", i, NonText("undefined"), 0, NaN),
             lastIndex, Duration(NumAbs(heap[i].ms)), now, <<>>)

\* d{i}.negate()
DurationNegate(i) ==
    /\ pc = "idle"
    /\ IsDuration(i)
    /\ Makes(CallOf("Duration.negate", i, NonText("undefined"), 0, NaN),
             lastIndex, Duration(NumNeg(heap[i].ms)), now, <<>>)

\* d{i}.equals(d)
DurationEquals(i, d) ==
    LET call == CallOf("Duration.equals", i, d, 0, NaN)
        r    == Normalized(d)
    IN  /\ pc = "idle"
        /\ IsDuration(i)
        /\ IF r.outcome.kind = "throw" THEN Throws(call, r)
           ELSE Answers(call, r.lastIndex,
                        DurationCompares("equals", heap[i].ms, r.outcome.value), now, <<>>)

\* d{i}.greaterThan(d)
DurationGreaterThan(i, d) ==
    LET call == CallOf("Duration.greaterThan", i, d, 0, NaN)
        r    == Normalized(d)
    IN  /\ pc = "idle"
        /\ IsDuration(i)
        /\ IF r.outcome.kind = "throw" THEN Throws(call, r)
           ELSE Answers(call, r.lastIndex,
                        DurationCompares("greaterThan", heap[i].ms, r.outcome.value), now, <<>>)

\* d{i}.lessThan(d)
DurationLessThan(i, d) ==
    LET call == CallOf("Duration.lessThan", i, d, 0, NaN)
        r    == Normalized(d)
    IN  /\ pc = "idle"
        /\ IsDuration(i)
        /\ IF r.outcome.kind = "throw" THEN Throws(call, r)
           ELSE Answers(call, r.lastIndex,
                        DurationCompares("lessThan", heap[i].ms, r.outcome.value), now, <<>>)

\* d{i}.greaterThanOrEqual(d)
DurationGreaterThanOrEqual(i, d) ==
    LET call == CallOf("Duration.greaterThanOrEqual", i, d, 0, NaN)
        r    == Normalized(d)
    IN  /\ pc = "idle"
        /\ IsDuration(i)
        /\ IF r.outcome.kind = "throw" THEN Throws(call, r)
           ELSE Answers(call, r.lastIndex,
                        DurationCompares("greaterThanOrEqual", heap[i].ms, r.outcome.value), now, <<>>)

\* d{i}.lessThanOrEqual(d)
DurationLessThanOrEqual(i, d) ==
    LET call == CallOf("Duration.lessThanOrEqual", i, d, 0, NaN)
        r    == Normalized(d)
    IN  /\ pc = "idle"
        /\ IsDuration(i)
        /\ IF r.outcome.kind = "throw" THEN Throws(call, r)
           ELSE Answers(call, r.lastIndex,
                        DurationCompares("lessThanOrEqual", heap[i].ms, r.outcome.value), now, <<>>)

\* d{i}.toMillis()
DurationToMillis(i) ==
    /\ pc = "idle"
    /\ IsDuration(i)
    /\ Answers(CallOf("Duration.toMillis", i, NonText("undefined"), 0, NaN),
               lastIndex, heap[i].ms, now, <<>>)

\* Time.now()
TimeNow ==
    /\ pc = "idle"
    /\ Makes(CallOf("Time.now", 0, NonText("undefined"), 0, NaN),
             lastIndex, Time(Num(now, 0)), now, <<now>>)

\* Time.millis(n)
TimeMillis(n) ==
    /\ pc = "idle"
    /\ Makes(CallOf("Time.millis", 0, NonText("undefined"), 0, n),
             lastIndex, Time(n), now, <<>>)

\* Time.in(d): the duration is normalised before the clock is read
TimeIn(d) ==
    LET call == CallOf("Time.in", 0, d, 0, NaN)
        r    == Normalized(d)
    IN  /\ pc = "idle"
        /\ IF r.outcome.kind = "throw" THEN Throws(call, r)
           ELSE Makes(call, r.lastIndex, Time(NumAdd(Num(now, 0), r.outcome.value)), now, <<now>>)

\* Time.ago(d)
TimeAgo(d) ==
    LET call == CallOf("Time.ago", 0, d, 0, NaN)
        r    == Normalized(d)
    IN  /\ pc = "idle"
        /\ IF r.outcome.kind = "throw" THEN Throws(call, r)
           ELSE Makes(call, r.lastIndex, Time(NumSub(Num(now, 0), r.outcome.value)), now, <<now>>)

\* t{i}.add(d)
TimeAdd(i, d) ==
    LET call == CallOf("Time.add", i, d, 0, NaN)
        r    == Normalized(d)
    IN  /\ pc = "idle"
        /\ IsTime(i)
        /\ IF r.outcome.kind = "throw" THEN Throws(call, r)
           ELSE Makes(call, r.lastIndex, Time(NumAdd(heap[i].ms, r.outcome.value)), now, <<>>)

\* t{i}.subtract(d)
TimeSubtract(i, d) ==
    LET call == CallOf("Time.subtract", i, d, 0, NaN)
        r    == Normalized(d)
    IN  /\ pc = "idle"
        /\ IsTime(i)
        /\ IF r.outcome.kind = "throw" THEN Throws(call, r)
           ELSE Makes(call, r.lastIndex, Time(NumSub(heap[i].ms, r.outcome.value)), now, <<>>)

\* t{i}.isPast()
TimeIsPast(i) ==
    /\ pc = "idle"
    /\ IsTime(i)
    /\ Answers(CallOf("Time.isPast", i, NonText("undefined"), 0, NaN),
               lastIndex, isPast(heap[i].ms, Num(now, 0)), now, <<now>>)

\* t{i}.isFuture()
TimeIsFuture(i) ==
    /\ pc = "idle"
    /\ IsTime(i)
    /\ Answers(CallOf("Time.isFuture", i, NonText("undefined"), 0, NaN),
               lastIndex, isFuture(heap[i].ms, Num(now, 0)), now, <<now>>)

\* t{i}.hasExpired(): return this.isPast()
TimeHasExpired(i) ==
    /\ pc = "idle"
    /\ IsTime(i)
    /\ Answers(CallOf("Time.hasExpired", i, NonText("undefined"), 0, NaN),
               lastIndex, isPast(heap[i].ms, Num(now, 0)), now, <<now>>)

\* t{i}.isWithin(d, of): the clock is read only when no anchor is given
TimeIsWithin(i, d, of) ==
    LET call == CallOf("Time.isWithin", i, d, of, NaN)
        r    == Normalized(d)
        anchorMs == IF of # 0 THEN heap[of].ms ELSE Num(now, 0)
    IN  /\ pc = "idle"
        /\ IsTime(i)
        /\ IF r.outcome.kind = "throw" THEN Throws(call, r)
           ELSE Answers(call, r.lastIndex,
                        isWithin(heap[i].ms, WindowMs(r.outcome.value), anchorMs),
                        now, IF of # 0 THEN <<>> ELSE <<now>>)

\* t{i}.expiresWithin(d): isFuture() reads the clock; when the time is not in the future
\* the call returns false there, before the duration is looked at; otherwise the
\* duration is normalised and the clock is read again, at the same or a later moment
TimeExpiresWithin(i, d, later) ==
    LET call == CallOf("Time.expiresWithin", i, d, 0, NaN)
        r    == Normalized(d)
    IN  /\ pc = "idle"
        /\ IsTime(i)
        /\ IF ~isFuture(heap[i].ms, Num(now, 0))
           THEN later = now /\ Answers(call, lastIndex, FALSE, now, <<now>>)
           ELSE IF r.outcome.kind = "throw"
           THEN later = now /\ Ends(call, r.outcome, r.lastIndex, heap, now, <<now>>)
           ELSE Answers(call, r.lastIndex,
                        expiresWithin(heap[i].ms, r.outcome.value, Num(now, 0), Num(later, 0)),
                        later, <<now, later>>)

\* t{i}.expiredWithin(d): the same with isPast() and the time since
TimeExpiredWithin(i, d, later) ==
    LET call == CallOf("Time.expiredWithin", i, d, 0, NaN)
        r    == Normalized(d)
    IN  /\ pc = "idle"
        /\ IsTime(i)
        /\ IF ~isPast(heap[i].ms, Num(now, 0))
           THEN later = now /\ Answers(call, lastIndex, FALSE, now, <<now>>)
           ELSE IF r.outcome.kind = "throw"
           THEN later = now /\ Ends(call, r.outcome, r.lastIndex, heap, now, <<now>>)
           ELSE Answers(call, r.lastIndex,
                        expiredWithin(heap[i].ms, r.outcome.value, Num(now, 0), Num(later, 0)),
                        later, <<now, later>>)

\* t{i}.toMillis()
TimeToMillis(i) ==
    /\ pc = "idle"
    /\ IsTime(i)
    /\ Answers(CallOf("Time.toMillis", i, NonText("undefined"), 0, NaN),
               lastIndex, heap[i].ms, now, <<>>)

\* Time.seconds(n)
TimeSeconds(n) ==
    /\ pc = "idle"
    /\ Makes(CallOf("Time.seconds", 0, NonText("undefined"), 0, n),
             lastIndex, Time(NumMul(n, MS_PER_SECOND)), now, <<>>)

\* Time.date(d) for a Date d with d.getTime() = n
TimeDate(n) ==
    /\ pc = "idle"
    /\ Makes(CallOf("Time.date", 0, NonText("undefined"), 0, n),
             lastIndex, Time(n), now, <<>>)

\* Time.iso(s)
TimeIso(s) ==
    LET call == CallOf("Time.iso", 0, NonText("undefined"), 0, s.time)
    IN  /\ pc = "idle"
        /\ IF s.time.nan
           THEN Ends(call, Thrown("Invalid ISO date string", <<s.text>>, <<>>),
                     lastIndex, heap, now, <<>>)
           ELSE Makes(call, lastIndex, Time(s.time), now, <<>>)

\* t{i}.diff(other): other is the Time t{of}, or for of = 0 a Date with getTime() = n
TimeDiff(i, of, n) ==
    LET otherMs == IF of # 0 THEN heap[of].ms ELSE n
    IN  /\ pc = "idle"
        /\ IsTime(i)
        /\ of # 0 => n.nan
        /\ Makes(CallOf("Time.diff", i, NonText("undefined"), of, n),
                 lastIndex, Duration(diff(heap[i].ms, otherMs)), now, <<>>)

\* t{i}.equals(other), other as for diff
TimeEquals(i, of, n) ==
    LET otherMs == IF of # 0 THEN heap[of].ms ELSE n
    IN  /\ pc = "idle"
        /\ IsTime(i)
        /\ of # 0 => n.nan
        /\ Answers(CallOf("Time.equals", i, NonText("undefined"), of, n),
                   lastIndex, equals(heap[i].ms, otherMs), now, <<>>)

\* t{i}.toSeconds()
TimeToSeconds(i) ==
    /\ pc = "idle"
    /\ IsTime(i)
    /\ Answers(CallOf("Time.toSeconds", i, NonText("undefined"), 0, NaN),
               lastIndex, toSeconds(heap[i].ms), now, <<>>)

\* a millisecond passes between two calls
Tick ==
    /\ pc = "idle"
    /\ now < ClockStart + MaxTicks
    /\ now' = now + 1
    /\ UNCHANGED <<pc, input, outcome, lastIndex, heap, reads, parsed>>

\* the caller has taken the outcome and goes on
Resume ==
    /\ pc = "returned"
    /\ pc' = "idle"
    /\ input' = NoCall
    /\ outcome' = NoOutcome
    /\ reads' = <<>>
    /\ UNCHANGED <<lastIndex, now, heap, parsed>>

NextValues ==
    \/ \E n \in DurationCounts : DurationMilliseconds(n)
    \/ \E d \in DurationArgs : Dur(d)
    \/ \E i \in DOMAIN heap, d \in DurationArgs : DurationAdd(i, d)
    \/ \E i \in DOMAIN heap, d \in DurationArgs : DurationSubtract(i, d)
    \/ \E i \in DOMAIN heap, n \in Scalars : DurationMultiply(i, n)
    \/ \E i \in DOMAIN heap, n \in Scalars : DurationDivide(i, n)
    \/ \E i \in DOMAIN heap : DurationAbs(i)
    \/ \E i \in DOMAIN heap : DurationNegate(i)
    \/ \E i \in DOMAIN heap, d \in DurationArgs : DurationEquals(i, d)
    \/ \E i \in DOMAIN heap, d \in DurationArgs : DurationGreaterThan(i, d)
    \/ \E i \in DOMAIN heap, d \in DurationArgs : DurationLessThan(i, d)
    \/ \E i \in DOMAIN heap, d \in DurationArgs : DurationGreaterThanOrEqual(i, d)
    \/ \E i \in DOMAIN heap, d \in DurationArgs : DurationLessThanOrEqual(i, d)
    \/ \E i \in DOMAIN heap : DurationToMillis(i)
    \/ TimeNow
    \/ \E n \in TimeCounts : TimeMillis(n)
    \/ \E d \in DurationArgs : TimeIn(d)
    \/ \E d \in DurationArgs : TimeAgo(d)
    \/ \E i \in DOMAIN heap, d \in DurationArgs : TimeAdd(i, d)
    \/ \E i \in DOMAIN heap, d \in DurationArgs : TimeSubtract(i, d)
    \/ \E i \in DOMAIN heap : TimeIsPast(i)
    \/ \E i \in DOMAIN heap : TimeIsFuture(i)
    \/ \E i \in DOMAIN heap : TimeHasExpired(i)
    \/ \E i \in DOMAIN heap, d \in DurationArgs, of \in Anchors : TimeIsWithin(i, d, of)
    \/ \E i \in DOMAIN heap, d \in DurationArgs, later \in Later : TimeExpiresWithin(i, d, later)
    \/ \E i \in DOMAIN heap, d \in DurationArgs, later \in Later : TimeExpiredWithin(i, d, later)
    \/ \E i \in DOMAIN heap : TimeToMillis(i)
    \/ \E n \in SecondCounts : TimeSeconds(n)
    \/ \E n \in Dates : TimeDate(n)
    \/ \E s \in IsoTexts : TimeIso(s)
    \/ \E i \in DOMAIN heap, of \in Anchors, n \in Dates : TimeDiff(i, of, n)
    \/ \E i \in DOMAIN heap, of \in Anchors, n \in Dates : TimeEquals(i, of, n)
    \/ \E i \in DOMAIN heap : TimeToSeconds(i)
    \/ Tick
    \/ Resume

SpecValues == InitValues /\ [][NextValues]_vars

(***************************************************************************)
(* What the claims speak of                                                *)
(***************************************************************************)
Done == pc = "returned"

IsText == input.type = "string"

\* what parseDuration gives for the text chars, as an outcome
OutcomeOf(chars) == parseDuration(Text(chars), 0).outcome

\* chars is accepted and stands for a number
IsValid(chars) == OutcomeOf(chars).kind = "return" /\ ~OutcomeOf(chars).value.nan

ValueOf(chars) == OutcomeOf(chars).value

\* the millisecond constant documented for each accepted spelling
DocumentedMs ==
    [ms |-> Num(1, 0), msec |-> Num(1, 0), msecs |-> Num(1, 0), millisecond |-> Num(1, 0),
     milliseconds |-> Num(1, 0),
     s |-> Num(1000, 0), sec |-> Num(1000, 0), secs |-> Num(1000, 0), second |-> Num(1000, 0),
     seconds |-> Num(1000, 0),
     m |-> Num(60000, 0), min |-> Num(60000, 0), mins |-> Num(60000, 0),
     minute |-> Num(60000, 0), minutes |-> Num(60000, 0),
     h |-> Num(3600000, 0), hr |-> Num(3600000, 0), hrs |-> Num(3600000, 0),
     hour |-> Num(3600000, 0), hours |-> Num(3600000, 0),
     d |-> Num(86400000, 0), day |-> Num(86400000, 0), days |-> Num(86400000, 0),
     w |-> Num(604800000, 0), week |-> Num(604800000, 0), weeks |-> Num(604800000, 0),
     mo |-> Num(26298, 5), month |-> Num(26298, 5), months |-> Num(26298, 5),
     y |-> Num(315576, 5), yr |-> Num(315576, 5), yrs |-> Num(315576, 5),
     year |-> Num(315576, 5), years |-> Num(315576, 5)]

\* v spells the lowercase token u in some mix of upper and lower case
IsCaseVariant(v, u) ==
    /\ Len(v) = Len(u)
    /\ \A i \in 1..Len(u) : v[i] = u[i] \/ v[i] = toUpperCaseChar(u[i])

\* the text is digits, then optionally a point and digits
IsUnsignedNumber(n) ==
    /\ n # <<>>
    /\ IsDigit(n[1])
    /\ \A i \in 1..Len(n) : IsDigit(n[i]) \/ n[i] = "."
    /\ Cardinality({i \in 1..Len(n) : n[i] = "."}) <= 1

IsLetters(u) == u # <<>> /\ \A i \in 1..Len(u) : IsLetter(u[i])

\* the position where the letters that end x begin
UnitStart(x) == CHOOSE p \in 1..(Len(x) + 1) :
                    /\ \A i \in p..Len(x) : IsLetter(x[i])
                    /\ p = 1 \/ ~IsLetter(x[p - 1])

NumberOf(x) == SubSeq(x, 1, UnitStart(x) - 1)

UnitOf(x) == SubSeq(x, UnitStart(x), Len(x))

\* the lowercase spelling of a token, letter by letter
Spelling(u) == Key([i \in 1..Len(u) |-> IF u[i] \in Lowers THEN u[i] ELSE LowerOf[u[i]]])

\* x is one component: an unsigned number followed by letters
IsComponentShape(x) == IsUnsignedNumber(NumberOf(x)) /\ IsLetters(UnitOf(x))

\* x is one valid component: an unsigned number followed by an accepted unit spelling
IsSingleComponent(x) == IsComponentShape(x) /\ Spelling(UnitOf(x)) \in DOMAIN DocumentedMs

HasSign(x) == \E i \in 1..Len(x) : x[i] \in {"-", "+"}

\* C1: "1" followed by any accepted unit spelling, in any mix of upper and lower case,
\* parses to exactly the millisecond constant of that spelling's family.
C1_UnitSpellings ==
    \A u \in UnitTokens :
        (Done /\ IsText /\ input.chars # <<>> /\ Head(input.chars) = "1"
              /\ IsCaseVariant(Tail(input.chars), u))
            => outcome = Returned(DocumentedMs[Key(u)])

C1_Witness ==
    /\ Done
    /\ input = Text(<<"1", "M", "o", "N", "t", "h", "S">>)
    /\ outcome = Returned(Num(26298, 5))

\* C2: when the input is A followed by B, both valid single components with different
\* units, the result is the sum of what A alone and B alone parse to.
C2_CompoundAdditivity ==
    \A k \in 1..(Len(input.chars) - 1) :
        LET A == SubSeq(input.chars, 1, k)
            B == SubSeq(input.chars, k + 1, Len(input.chars))
        IN  (Done /\ IsText /\ IsSingleComponent(A) /\ IsSingleComponent(B)
                  /\ DocumentedMs[Spelling(UnitOf(A))] # DocumentedMs[Spelling(UnitOf(B))])
                => outcome = Returned(NumAdd(ValueOf(A), ValueOf(B)))

C2_Witness ==
    /\ Done
    /\ input = Text(<<"1", "h", "3", "0", "m">>)
    /\ outcome = Returned(Num(5400000, 0))
    /\ ValueOf(<<"1", "h">>) = Num(3600000, 0)
    /\ ValueOf(<<"3", "0", "m">>) = Num(1800000, 0)

\* C3: a "-" put before a valid expression X without sign characters negates the value
\* of X as a whole, and a "+" put before it leaves the value of X.
C3_SignDistributivity ==
    (Done /\ IsText /\ input.chars # <<>> /\ Head(input.chars) \in {"-", "+"}
          /\ ~HasSign(Tail(input.chars)) /\ IsValid(Tail(input.chars)))
        => outcome = Returned(IF Head(input.chars) = "-"
                              THEN NumNeg(ValueOf(Tail(input.chars)))
                              ELSE ValueOf(Tail(input.chars)))

\* the sign reaches both components of "-1h30m"
C3_Witness ==
    /\ Done
    /\ input = Text(<<"-", "1", "h", "3", "0", "m">>)
    /\ outcome = Returned(NumNeg(Num(5400000, 0)))
    /\ ValueOf(<<"1", "h", "3", "0", "m">>) = Num(5400000, 0)

IsBareText(n) ==
    /\ \A i \in 1..Len(n) : IsDigit(n[i]) \/ n[i] = "."
    /\ \E i \in 1..Len(n) : IsDigit(n[i])
    /\ Cardinality({i \in 1..Len(n) : n[i] = "."}) <= 1

\* the number a bare text writes
BareValue(n) ==
    LET dot == IF \E i \in 1..Len(n) : n[i] = "."
               THEN CHOOSE i \in 1..Len(n) : n[i] = "."
               ELSE Len(n) + 1
    IN  Decimal(SubSeq(n, 1, dot - 1), SubSeq(n, dot + 1, Len(n)))

\* C5: a text of digits with at most one decimal point (and at least one digit),
\* optionally after one sign, parses to the number it writes, as milliseconds, fraction
\* included.
C5_BareNumberIdentity ==
    LET c      == input.chars
        signed == c # <<>> /\ Head(c) \in {"-", "+"}
        n      == IF signed THEN Tail(c) ELSE c
    IN  (Done /\ IsText /\ IsBareText(n))
            => outcome = Returned(IF signed /\ Head(c) = "-"
                                  THEN NumNeg(BareValue(n)) ELSE BareValue(n))

C5_Witness ==
    /\ Done
    /\ input = Text(<<"-", "1", ".", "5">>)
    /\ outcome = Returned(NumNeg(Num(15, 0 - 1)))

\* C6: text that, after the sign is stripped, is digits and two or more decimal points
\* is not returned as a bare number: its outcome is the component scan's.
C6_TwoPointsNotBare ==
    (Done /\ IsText /\ trim(input.chars) # <<>>)
        => LET sg == StripSign(trim(input.chars))
           IN  (/\ IsDigitsAndDots(sg.parseStr)
                /\ Cardinality({i \in 1..Len(sg.parseStr) : sg.parseStr[i] = "."}) >= 2)
                   => outcome = ComponentScan(input.chars, sg.parseStr, sg.isNegative,
                                              0, 0, Zero, FALSE).outcome

\* C7: a single component whose letters, lowercased, are no accepted spelling fails
\* with the unknown-unit error that names the letters and the input.
C7_UnknownUnitRejected ==
    (Done /\ IsText /\ IsComponentShape(input.chars)
          /\ Spelling(UnitOf(input.chars)) \notin DOMAIN DocumentedMs)
        => outcome = Thrown("unknown unit", UnitOf(input.chars), input.chars)

\* every match the matcher finds in s from position from on, in order
RECURSIVE AllMatches(_, _)
AllMatches(s, from) ==
    LET m == COMPONENT_REGEX_exec(s, from)
    IN  IF ~m.found THEN <<>> ELSE <<m>> \o AllMatches(s, m.end)

\* the text before the i-th match of ms; for i = Len(ms) + 1, the text after the last
Between(s, ms, i) ==
    SubSeq(s, IF i = 1 THEN 1 ELSE ms[i - 1].end + 1,
              IF i <= Len(ms) THEN ms[i].index ELSE Len(s))

IsBlank(t) == \A i \in 1..Len(t) : IsSpace(t[i])

\* t without the white space around it
Stripped(t) ==
    LET ink == {i \in 1..Len(t) : ~IsSpace(t[i])}
    IN  IF ink = {} THEN <<>>
        ELSE SubSeq(t, CHOOSE i \in ink : \A j \in ink : i <= j,
                       CHOOSE i \in ink : \A j \in ink : j <= i)

\* the component was accepted: it has no unit letters or an accepted spelling
IsAccepted(m) == m.unitStr = <<>> \/ Spelling(m.unitStr) \in DOMAIN DocumentedMs

C9_ValidationFirst ==
    [][(pc = "calling" /\ pc' = "returned" /\ (~IsText \/ IsBlank(input.chars)))
           => /\ outcome' = Thrown(IF IsText THEN "empty string" ELSE "expected string",
                                   <<>>, <<>>)
              /\ lastIndex' = lastIndex]_vars

\* a white-space-only call after a call that threw in the scan and left the matcher advanced
C9_Witness ==
    /\ Done
    /\ input = Text(<<" ">>)
    /\ outcome = Thrown("empty string", <<>>, <<>>)
    /\ lastIndex > 0

\* the text without its white space
Squeezed(c) == SelectSeq(c, LAMBDA x : ~IsSpace(x))

\* every white space of c stands before the text, after it, between a number and
\* letters, or between letters and a digit
IsTransparentSpacing(c) ==
    \A i \in 1..Len(c) :
        IsSpace(c[i]) =>
            LET left  == {j \in 1..(i - 1) : ~IsSpace(c[j])}
                right == {j \in (i + 1)..Len(c) : ~IsSpace(c[j])}
                a     == c[CHOOSE j \in left : \A k \in left : k <= j]
                b     == c[CHOOSE j \in right : \A k \in right : j <= k]
            IN  \/ left = {}
                \/ right = {}
                \/ (IsDigit(a) \/ a = ".") /\ IsLetter(b)
                \/ IsLetter(a) /\ IsDigit(b)

\* C10: white space put around a valid expression, between a number and its unit, or
\* between two components does not change the result.
C10_WhitespaceTransparent ==
    (Done /\ IsText /\ Squeezed(input.chars) # input.chars
          /\ IsTransparentSpacing(input.chars) /\ IsValid(Squeezed(input.chars)))
        => outcome = Returned(ValueOf(Squeezed(input.chars)))

C10_Witness ==
    /\ Done
    /\ input = Text(<<"1", "h", " ", "3", "0", "m">>)
    /\ outcome = Returned(Num(5400000, 0))
    /\ ValueOf(<<"1", "h", "3", "0", "m">>) = Num(5400000, 0)

(***************************************************************************)
(* The formatter                                                           *)
(***************************************************************************)
Humanized == Done /\ input.fn = "humanize"

Relative == Done /\ input.fn = "formatRelative"

\* the text of a unit after a shown number: the symbol, or a space and a name
UnitTexts(i, long) ==
    IF long THEN {<<" ">> \o UNITS[i].long, <<" ">> \o UNITS[i].longPlural}
    ELSE {UNITS[i].short}

\* C11: for every non-zero ms, humanize picks the first unit of the descending list
\* whose size is <= |ms| and shows |ms| / size rounded to the nearest integer, ties up.
C11_LargestUnitRounded ==
    (Humanized /\ ~NumEq(input.ms, Zero))
        => \E i \in DOMAIN UNITS :
              /\ NumLessEq(UNITS[i].ms, NumAbs(input.ms))
              /\ \A j \in 1..(i - 1) : ~NumLessEq(UNITS[j].ms, NumAbs(input.ms))
              /\ \E u \in UnitTexts(i, input.long) :
                    outcome.value =
                        (IF NumLess(input.ms, Zero) THEN <<"-">> ELSE <<>>)
                        \o NumToString(RoundedQuotient(NumAbs(input.ms), UNITS[i].ms)) \o u

\* the position of the space of a long-form text
SpaceOf(text) == CHOOSE i \in 1..Len(text) : text[i] = " "

\* the number a long-form text shows, without its sign
ShownNumber(text) ==
    LET n == SubSeq(text, 1, SpaceOf(text) - 1)
    IN  IF n # <<>> /\ Head(n) = "-" THEN Tail(n) ELSE n

\* the unit name a long-form text shows
ShownName(text) == SubSeq(text, SpaceOf(text) + 1, Len(text))

\* C12: in long form the unit name is the singular exactly when the shown, rounded
\* value is 1, and the plural for every other value, zero and negative inputs included;
\* the choice follows the rounded value, not the raw millisecond count.
C12_SingularExactlyOne ==
    (Humanized /\ input.long)
        => /\ \E i \in DOMAIN UNITS :
                 /\ ShownName(outcome.value) \in {UNITS[i].long, UNITS[i].longPlural}
                 /\ ShownName(outcome.value) = UNITS[i].long
                        <=> ShownNumber(outcome.value) = <<"1">>
                 /\ NumLessEq(UNITS[i].ms, NumAbs(input.ms))
                        => (ShownName(outcome.value) = UNITS[i].long
                              <=> RoundedQuotient(NumAbs(input.ms), UNITS[i].ms) = Num(1, 0))

\* 89999 ms is no whole number of minutes and is shown as the singular "1 minute"
C12_Witness ==
    /\ Humanized /\ input.long
    /\ input.ms = Num(89999, 0)
    /\ outcome.value = <<"1", " ", "m", "i", "n", "u", "t", "e">>

\* C13: the text of humanize starts with "-" exactly when ms < 0; for ms > 0 the text
\* for -ms is "-" followed by the text for ms, in both forms; 0 and -0 give the unsigned
\* "0ms" / "0 milliseconds".
C13_SignIffNegative ==
    Humanized
        => /\ Head(outcome.value) = "-" <=> NumLess(input.ms, Zero)
           /\ NumLess(Zero, input.ms)
                 => humanize(NumNeg(input.ms), input.long) = <<"-">> \o outcome.value
           /\ NumLess(input.ms, Zero)
                 => outcome.value = <<"-">> \o humanize(NumNeg(input.ms), input.long)
           /\ input.ms \in {Zero, NegZero}
                 => outcome.value = IF input.long
                                    THEN <<"0", " ", "m", "i", "l", "l", "i", "s", "e", "c",
                                           "o", "n", "d", "s">>
                                    ELSE <<"0", "m", "s">>

\* minus one hour is shown as "-1h"
C13_Witness ==
    /\ Humanized /\ ~input.long
    /\ input.ms = NumNeg(MS_PER_HOUR)
    /\ outcome.value = <<"-", "1", "h">>

\* C14: formatRelative gives "in a moment" (diffMs >= 0) or "just now" (diffMs < 0) when
\* |diffMs| < 10000, in both forms; from 10000 on it gives "in " + humanize(|diffMs|) for
\* diffMs >= 0 and humanize(|diffMs|) + " ago" for diffMs < 0; the text has no minus sign.
C14_RelativePhrases ==
    Relative
        => /\ NumLess(NumAbs(input.ms), Num(10000, 0))
                 => outcome.value =
                        IF NumLessEq(Zero, input.ms)
                        THEN <<"i", "n", " ", "a", " ", "m", "o", "m", "e", "n", "t">>
                        ELSE <<"j", "u", "s", "t", " ", "n", "o", "w">>
           /\ NumLessEq(Num(10000, 0), NumAbs(input.ms))
                 => outcome.value =
                        IF NumLessEq(Zero, input.ms)
                        THEN <<"i", "n", " ">> \o humanize(NumAbs(input.ms), input.long)
                        ELSE humanize(NumAbs(input.ms), input.long) \o <<" ", "a", "g", "o">>
           /\ \A i \in 1..Len(outcome.value) : outcome.value[i] # "-"

\* the boundary itself: exactly ten seconds ahead is "in 10s"
C14_Witness ==
    /\ Relative /\ ~input.long
    /\ input.ms = Num(10000, 0)
    /\ outcome.value = <<"i", "n", " ", "1", "0", "s">>

(***************************************************************************)
(* Repeated calls                                                          *)
(***************************************************************************)
\* C15: the outcome of parseDuration, value or error, is a function of its input alone:
\* after any earlier calls, also ones that threw inside the scan and left the matcher's
\* position advanced, a call gives what it would give as the very first call.
C15_OutcomeOfInputAlone ==
    Done => outcome = parseDuration(input, 0).outcome

\* a call has returned a value while the matcher is still where an earlier, throwing
\* call left it
C15_Witness ==
    /\ Done /\ IsText
    /\ outcome.kind = "return"
    /\ lastIndex > 0

(***************************************************************************)
(* Duration and Time                                                       *)
(***************************************************************************)
\* the call that has just ended was op
Called(op) == Done /\ input.op = op

\* the argument is a duration: a Duration made before, or a text parseDuration accepts
IsDurationArg(d) ==
    \/ isDurationLike(d)
    \/ d.type = "string" /\ ParsedTexts[d.chars][0].outcome.kind = "return"

\* the milliseconds of a duration argument
ArgMs(d) == IF isDurationLike(d) THEN heap[d.ref].ms ELSE ParsedTexts[d.chars][0].outcome.value

\* the receiver's millisecond count
SelfMs == heap[input.self].ms

\* the anchor of an isWithin call: the Time given, or else the clock reading it took
AnchorMs == IF input.of # 0 THEN heap[input.of].ms ELSE Num(reads[1], 0)

\* C16: t.isWithin(D, a), a defaulting to the clock reading, is true exactly when
\* |t - a| <= |D|: the bound is inclusive, t and a can be swapped, and a negative D
\* gives the window of -D.
C16_IsWithinWindow ==
    (Called("Time.isWithin") /\ IsDurationArg(input.arg))
        => /\ outcome.kind = "return"
           /\ outcome.value
                 = NumLessEq(NumAbs(NumSub(SelfMs, AnchorMs)), NumAbs(ArgMs(input.arg)))
           /\ outcome.value
                 = NumLessEq(NumAbs(NumSub(AnchorMs, SelfMs)), NumAbs(ArgMs(input.arg)))
           /\ outcome.value
                 = NumLessEq(NumAbs(NumSub(SelfMs, AnchorMs)), NumAbs(NumNeg(ArgMs(input.arg))))

\* a Time exactly one millisecond from the anchor given is within '1ms' of it
C16_Witness ==
    /\ Called("Time.isWithin")
    /\ input.of # 0
    /\ input.arg = Text(<<"1", "m", "s">>)
    /\ NumAbs(NumSub(SelfMs, AnchorMs)) = Num(1, 0)
    /\ outcome = Returned(TRUE)

\* every clock reading of the call was the same
ClockFixed == \A k \in DOMAIN reads : reads[k] = reads[1]

\* C17: with the clock fixed at now, hasExpired() and isPast() are both t < now,
\* expiresWithin(D) is t > now and t - now <= D, and expiredWithin(D) is t < now and
\* now - t <= D, with D taken with its sign.
C17_ExpiryPredicates ==
    /\ (Called("Time.hasExpired") \/ Called("Time.isPast"))
          => outcome = Returned(NumLess(SelfMs, Num(reads[1], 0)))
    /\ (Called("Time.expiresWithin") /\ ClockFixed /\ IsDurationArg(input.arg))
          => outcome = Returned(/\ NumLess(Num(reads[1], 0), SelfMs)
                                /\ NumLessEq(NumSub(SelfMs, Num(reads[1], 0)),
                                             ArgMs(input.arg)))
    /\ (Called("Time.expiredWithin") /\ ClockFixed /\ IsDurationArg(input.arg))
          => outcome = Returned(/\ NumLess(SelfMs, Num(reads[1], 0))
                                /\ NumLessEq(NumSub(Num(reads[1], 0), SelfMs),
                                             ArgMs(input.arg)))

\* a Time one millisecond ahead does not expire within a Duration of minus one
\* millisecond or less, though it is within its absolute value
C17_Witness ==
    /\ Called("Time.expiresWithin") /\ ClockFixed
    /\ isDurationLike(input.arg)
    /\ NumSub(SelfMs, Num(reads[1], 0)) = Num(1, 0)
    /\ NumLessEq(ArgMs(input.arg), NumNeg(Num(1, 0)))
    /\ outcome = Returned(FALSE)

\* the operations of Duration and Time that take a duration
DurationTakers ==
    {"dur", "Duration.add", "Duration.subtract", "Duration.equals", "Duration.greaterThan",
     "Duration.lessThan", "Duration.greaterThanOrEqual", "Duration.lessThanOrEqual",
     "Time.in", "Time.ago", "Time.add", "Time.subtract", "Time.isWithin",
     "Time.expiresWithin", "Time.expiredWithin"}

\* C18: every Duration or Time operation that takes a duration, given a text that
\* parseDuration rejects, fails with exactly the error parseDuration raises for that
\* text, whatever the receiver and the clock, and returns nothing.
C18_ParseErrorsPropagate ==
    (Done /\ input.op \in DurationTakers /\ input.arg.type = "string"
          /\ parseDuration(input.arg, 0).outcome.kind = "throw")
        => outcome = parseDuration(input.arg, 0).outcome

\* the messages of the errors parseDuration throws
ParseMessages ==
    {"expected string", "empty string", "unexpected characters", "invalid number",
     "unknown unit", "could not parse"}

\* a call of Duration.divide is made and ends
Divides == pc = "idle" /\ pc' = "returned" /\ input'.op = "Duration.divide"

\* C19: Duration.divide(n) fails with 'Cannot divide duration by zero', an error no
\* parseDuration call raises, exactly when n is zero, and leaves the receiver as it
\* was; for every other n it returns a Duration of this.ms / n.
C19_DivideByZero ==
    [][Divides =>
        LET self == input'.self
            n    == input'.n
        IN  /\ heap'[self] = heap[self]
            /\ outcome'.kind = "throw" <=> NumEq(n, Zero)
            /\ outcome'.kind = "throw"
                  => /\ outcome' = Thrown("Cannot divide duration by zero", <<>>, <<>>)
                     /\ outcome'.message \notin ParseMessages
                     /\ heap' = heap
            /\ outcome'.kind = "return"
                  => /\ heap' = Append(heap, heap'[outcome'.value])
                     /\ heap'[outcome'.value].class = "Duration"
                     /\ LET q == heap'[outcome'.value].ms
                        IN  IF n.nan \/ heap[self].ms.nan THEN q.nan
                            ELSE NumMul(q, n) = heap[self].ms]_vars

\* dividing by -0 has thrown the dedicated error
C19_Witness ==
    /\ Called("Duration.divide")
    /\ input.n = NegZero
    /\ outcome = Thrown("Cannot divide duration by zero", <<>>, <<>>)

\* the operations that return a new value
ValueMakers ==
    {"Duration.add", "Duration.subtract", "Duration.multiply", "Duration.divide",
     "Duration.abs", "Duration.negate", "Time.add", "Time.subtract"}

\* C20: the millisecond count seen through an existing Duration or Time never changes;
\* add, subtract, multiply, divide, abs and negate on Duration and add and subtract on
\* Time return a new value and leave the receiver and a Duration argument as they were.
C20_Immutable ==
    [][/\ \A i \in DOMAIN heap : i \in DOMAIN heap' /\ heap'[i] = heap[i]
       /\ (pc = "idle" /\ pc' = "returned" /\ input'.op \in ValueMakers
               /\ outcome'.kind = "return")
             => /\ outcome'.value \in DOMAIN heap' \ DOMAIN heap
                /\ heap'[input'.self] = heap[input'.self]
                /\ isDurationLike(input'.arg)
                      => heap'[input'.arg.ref] = heap[input'.arg.ref]]_vars

\* a Duration was added to another one: the sum is a third object and both terms still
\* hold their counts
C20_Witness ==
    /\ Called("Duration.add")
    /\ isDurationLike(input.arg) /\ input.arg.ref # input.self
    /\ outcome.kind = "return"
    /\ outcome.value \notin {input.self, input.arg.ref}
    /\ heap[outcome.value].ms = NumAdd(SelfMs, heap[input.arg.ref].ms)
    /\ heap[outcome.value].ms # SelfMs

\* the Duration a returning call has made
MadeMs == heap[outcome.value].ms

\* C21: a Duration behaves as the number it holds: add, subtract, multiply, divide (by
\* n other than zero), abs and negate make Durations of a+b, a-b, a*n, a/n, |a| and -a;
\* the five comparisons are the numeric comparisons of the counts, exactly one of
\* lessThan, equals, greaterThan holding between two numbers; a text argument counts as
\* its parseDuration value.
C21_DurationIsItsNumber ==
    /\ (Done /\ input.op \in {"Duration.add", "Duration.subtract"} /\ IsDurationArg(input.arg))
          => /\ outcome.kind = "return"
             /\ heap[outcome.value].class = "Duration"
             /\ MadeMs = IF input.op = "Duration.add"
                          THEN NumAdd(SelfMs, ArgMs(input.arg))
                          ELSE NumAdd(SelfMs, NumNeg(ArgMs(input.arg)))
    /\ Called("Duration.multiply")
          => /\ outcome.kind = "return"
             /\ heap[outcome.value] = Duration(NumMul(SelfMs, input.n))
    /\ (Called("Duration.divide") /\ ~NumEq(input.n, Zero))
          => /\ outcome.kind = "return"
             /\ heap[outcome.value].class = "Duration"
             /\ IF SelfMs.nan \/ input.n.nan THEN MadeMs.nan
                ELSE NumMul(MadeMs, input.n) = SelfMs
    /\ Called("Duration.abs")
          => /\ outcome.kind = "return"
             /\ heap[outcome.value].class = "Duration"
             /\ IF SelfMs.nan THEN MadeMs.nan
                ELSE /\ ~NumLess(MadeMs, Zero) /\ ~MadeMs.neg
                     /\ NumEq(MadeMs, SelfMs) \/ NumEq(MadeMs, NumNeg(SelfMs))
    /\ Called("Duration.negate")
          => /\ outcome.kind = "return"
             /\ heap[outcome.value].class = "Duration"
             /\ IF SelfMs.nan THEN MadeMs.nan
                ELSE NumEq(NumAdd(MadeMs, SelfMs), Zero) /\ MadeMs.neg # SelfMs.neg
    /\ (Done /\ IsDurationArg(input.arg)
             /\ input.op \in {"Duration.equals", "Duration.greaterThan", "Duration.lessThan",
                               "Duration.greaterThanOrEqual", "Duration.lessThanOrEqual"})
          => LET a  == SelfMs
                 b  == ArgMs(input.arg)
                 lt == NumLess(a, b)
                 eq == NumEq(a, b)
                 gt == NumLess(b, a)
             IN  /\ outcome.kind = "return"
                 /\ outcome.value = CASE input.op = "Duration.equals" -> eq
                                      [] input.op = "Duration.greaterThan" -> gt
                                      [] input.op = "Duration.lessThan" -> lt
                                      [] input.op = "Duration.greaterThanOrEqual" -> gt \/ eq
                                      [] input.op = "Duration.lessThanOrEqual" -> lt \/ eq
                 /\ (~a.nan /\ ~b.nan) => Cardinality({k \in 1..3 : <<lt, eq, gt>>[k]}) = 1

\* the Duration of 1 ms had the text '-.5' added and the sum holds 0.5
C21_Witness ==
    /\ Called("Duration.add")
    /\ input.arg = Text(<<"-", ".", "5">>)
    /\ SelfMs = Num(1, 0)
    /\ outcome.kind = "return"
    /\ MadeMs = Num(5, 0 - 1)

\* the other instant of a diff or equals call
OtherMs == IF input.of # 0 THEN heap[input.of].ms ELSE input.n

\* C22: t1.diff(t2) is a Duration of exactly t1.ms - t2.ms: it is the negation of
\* t2.diff(t1), it is zero when t2 is t1, and t2.add of it equals t1.
C22_DiffIsDifference ==
    (Called("Time.diff") /\ ~SelfMs.nan /\ ~OtherMs.nan)
        => /\ outcome.kind = "return"
           /\ heap[outcome.value].class = "Duration"
           /\ NumAdd(OtherMs, MadeMs) = SelfMs
           /\ NumEq(NumAdd(MadeMs, NumSub(OtherMs, SelfMs)), Zero)
           /\ input.of = input.self => NumEq(MadeMs, Zero)
           /\ equals(Time(NumAdd(OtherMs, MadeMs)).ms, SelfMs)

\* a Time was compared with a later one: the difference is negative
C22_Witness ==
    /\ Called("Time.diff")
    /\ input.of # 0
    /\ NumLess(SelfMs, OtherMs)
    /\ outcome.kind = "return"
    /\ MadeMs = NumNeg(NumSub(OtherMs, SelfMs))
    /\ NumLess(MadeMs, Zero)

\* C23: a component of digits without unit letters counts as milliseconds wherever it
\* stands in a compound expression: after a component with a unit, as in '1h30', or,
\* followed by white space, before one.
C23_UnitlessIsMilliseconds ==
    \A k \in 1..(Len(input.chars) - 1) :
        LET X == SubSeq(input.chars, 1, k)
            Y == SubSeq(input.chars, k + 1, Len(input.chars))
        IN  /\ (Done /\ IsText /\ IsSingleComponent(X) /\ IsUnsignedNumber(Stripped(Y)))
                  => outcome = Returned(NumAdd(ValueOf(X), BareValue(Stripped(Y))))
            /\ (Done /\ IsText /\ IsUnsignedNumber(Stripped(X)) /\ IsSpace(X[k])
                      /\ IsSingleComponent(Y))
                  => outcome = Returned(NumAdd(BareValue(Stripped(X)), ValueOf(Y)))

\* '1h1' is one hour and one millisecond
C23_Witness ==
    /\ Done
    /\ input = Text(<<"1", "h", "1">>)
    /\ outcome = Returned(Num(3600001, 0))

\* the clock readings between the first and the last one the call took
ReadsBetween == {Num(c, 0) : c \in reads[1]..reads[Len(reads)]}

\* C24: under a clock that may advance between the reads of one call, what
\* expiresWithin(D) and expiredWithin(D) return for D >= 0 is the documented predicate
\* (future and time until <= D, past and time since <= D) at some one clock value
\* between the call's first and last read.
C24_OneClockValue ==
    /\ (Called("Time.expiresWithin") /\ IsDurationArg(input.arg)
           /\ NumLessEq(Zero, ArgMs(input.arg)))
          => \E c \in ReadsBetween :
                 outcome = Returned(/\ NumLess(c, SelfMs)
                                    /\ NumLessEq(NumSub(SelfMs, c), ArgMs(input.arg)))
    /\ (Called("Time.expiredWithin") /\ IsDurationArg(input.arg)
           /\ NumLessEq(Zero, ArgMs(input.arg)))
          => \E c \in ReadsBetween :
                 outcome = Returned(/\ NumLess(SelfMs, c)
                                    /\ NumLessEq(NumSub(c, SelfMs), ArgMs(input.arg)))

\* the argument is a text that parseDuration accepts as a number
IsAcceptedText(d) ==
    /\ d.type = "string"
    /\ ParsedTexts[d.chars][0].outcome.kind = "return"
    /\ ~ParsedTexts[d.chars][0].outcome.value.nan

\* C25: adding and then subtracting the same accepted duration text d, whole or
\* fractional, gives an instant equal to the first: the Time that t.add(d) made, with d
\* subtracted, holds t's count, and so does the Time t.subtract(d) made with d added.
C25_AddThenSubtract ==
    /\ (Called("Time.add") /\ IsAcceptedText(input.arg) /\ ~SelfMs.nan)
          => /\ outcome.kind = "return"
             /\ equals(Time(NumSub(MadeMs, ArgMs(input.arg))).ms, SelfMs)
    /\ (Called("Time.subtract") /\ IsAcceptedText(input.arg) /\ ~SelfMs.nan)
          => /\ outcome.kind = "return"
             /\ equals(Time(NumAdd(MadeMs, ArgMs(input.arg))).ms, SelfMs)

\* a text of humanize without its minus sign
Unsigned(text) == IF text # <<>> /\ Head(text) = "-" THEN Tail(text) ELSE text

\* the digits a text of humanize starts with, after the sign
CountText(text) == SubSeq(Unsigned(text), 1, RunEnd(Unsigned(text), 1, Digits) - 1)

\* what follows those digits
UnitText(text) ==
    SubSeq(Unsigned(text), RunEnd(Unsigned(text), 1, Digits), Len(Unsigned(text)))

IsInteger(x) == ~x.nan /\ x.exp >= 0

\* C26: for every non-zero integer ms the count humanize shows is at least 1 and
\* strictly less than the ratio of the next larger unit of the list to the unit shown:
\* never '1000ms', '60s', '60m', '24h', '7d' or '12mo'.
C26_CountBelowNextUnit ==
    (Humanized /\ IsInteger(input.ms) /\ ~NumEq(input.ms, Zero))
        => \E i \in DOMAIN UNITS :
              /\ UnitText(outcome.value) \in UnitTexts(i, input.long)
              /\ CountText(outcome.value) # <<>>
              /\ NumLessEq(Num(1, 0), BareValue(CountText(outcome.value)))
              /\ i > 1 => NumLess(NumMul(BareValue(CountText(outcome.value)), UNITS[i].ms),
                                  UNITS[i - 1].ms)

\* what parseDuration makes of a text of humanize
Reparsed(text) == parseDuration(Text(text), 0).outcome

\* C27: for every integer ms parseDuration accepts humanize(ms) in both forms, both
\* parse to one value v, v has the sign of ms (0 for 0), v is within half the shown unit
\* of ms, and v is ms when ms is a whole multiple of a unit and smaller than the next
\* larger unit.
C27_FormatThenParse ==
    (Humanized /\ IsInteger(input.ms))
        => LET v     == Reparsed(outcome.value)
               other == Reparsed(humanize(input.ms, ~input.long))
           IN  /\ v.kind = "return" /\ ~v.value.nan
               /\ other = v
               /\ NumLess(v.value, Zero) <=> NumLess(input.ms, Zero)
               /\ NumEq(v.value, Zero) <=> NumEq(input.ms, Zero)
               /\ \E i \in DOMAIN UNITS :
                      /\ UnitText(outcome.value) \in UnitTexts(i, input.long)
                      /\ NumLessEq(NumMul(NumAbs(NumSub(v.value, input.ms)), Num(2, 0)),
                                   UNITS[i].ms)
               /\ \A i \in DOMAIN UNITS :
                      (/\ \E k \in 1..(2 * MaxCount) :
                             NumAbs(input.ms) = NumMul(UNITS[i].ms, Num(k, 0))
                       /\ i > 1 => NumLess(NumAbs(input.ms), UNITS[i - 1].ms))
                          => v.value = input.ms

\* minus two days is shown as '-2 days', which parses back to minus two days
C27_Witness ==
    /\ Humanized /\ input.long
    /\ input.ms = NumNeg(NumMul(MS_PER_DAY, Num(2, 0)))
    /\ outcome.value = <<"-", "2", " ", "d", "a", "y", "s">>
    /\ Reparsed(outcome.value) = Returned(input.ms)

\* the one clock reading of a call made under a fixed clock
FixedNow == Num(reads[1], 0)

\* C28: with the clock fixed at now and D >= 0, expiresWithin(D) and expiredWithin(D) are
\* never both true, an instant equal to now is neither past nor future nor expired,
\* and isWithin(D) holds exactly when expiresWithin(D) or expiredWithin(D) holds or the
\* instant equals now.
C28_WindowsExclusive ==
    /\ (Done /\ input.op \in {"Time.isPast", "Time.isFuture", "Time.hasExpired"}
              /\ equals(SelfMs, FixedNow))
          => outcome = Returned(FALSE)
    /\ (Done /\ input.op \in {"Time.isWithin", "Time.expiresWithin", "Time.expiredWithin"}
              /\ input.of = 0 /\ ClockFixed
              /\ IsDurationArg(input.arg) /\ NumLessEq(Zero, ArgMs(input.arg)))
          => LET D       == ArgMs(input.arg)
                 expires == expiresWithin(SelfMs, D, FixedNow, FixedNow)
                 expired == expiredWithin(SelfMs, D, FixedNow, FixedNow)
                 within  == isWithin(SelfMs, WindowMs(D), FixedNow)
             IN  /\ outcome = Returned(CASE input.op = "Time.isWithin" -> within
                                         [] input.op = "Time.expiresWithin" -> expires
                                         [] input.op = "Time.expiredWithin" -> expired)
                 /\ ~(expires /\ expired)
                 /\ within <=> (expires \/ expired \/ equals(SelfMs, FixedNow))

\* an instant one millisecond before now is within '1ms' of now, having expired
\* within it
C28_Witness ==
    /\ Called("Time.isWithin") /\ input.of = 0
    /\ input.arg = Text(<<"1", "m", "s">>)
    /\ NumSub(FixedNow, SelfMs) = Num(1, 0)
    /\ outcome = Returned(TRUE)
    /\ expiredWithin(SelfMs, ArgMs(input.arg), FixedNow, FixedNow)
    /\ ~expiresWithin(SelfMs, ArgMs(input.arg), FixedNow, FixedNow)

\* the factories and operations that make a Time
TimeMakers ==
    {"Time.now", "Time.seconds", "Time.millis", "Time.date", "Time.iso", "Time.in",
     "Time.ago", "Time.add", "Time.subtract"}

\* the value the call that has ended computed for the Time it made
ComputedMs ==
    CASE input.op = "Time.now" -> Num(reads[1], 0)
      [] input.op = "Time.seconds" -> NumMul(input.n, Num(1000, 0))
      [] input.op \in {"Time.millis", "Time.date", "Time.iso"} -> input.n
      [] input.op = "Time.in" -> NumAdd(Num(reads[1], 0), ArgMs(input.arg))
      [] input.op = "Time.ago" -> NumSub(Num(reads[1], 0), ArgMs(input.arg))
      [] input.op = "Time.add" -> NumAdd(SelfMs, ArgMs(input.arg))
      [] input.op = "Time.subtract" -> NumSub(SelfMs, ArgMs(input.arg))

\* m is the floor of the number x
IsFloorOf(m, x) == IsInteger(m) /\ NumLessEq(m, x) /\ NumLess(x, NumAdd(m, Num(1, 0)))

\* C29: every Time made by now, seconds, millis, date, iso, in, ago, add or subtract
\* holds a whole number of milliseconds, the floor of the value computed; so toSeconds()
\* is floor(ms / 1000), Time.seconds(s).toSeconds() is s and Time.millis(m).toMillis() is
\* m for integers s and m, and the diff of two Times is a whole number of milliseconds.
C29_WholeMilliseconds ==
    /\ \A i \in DOMAIN heap : (IsTime(i) /\ ~heap[i].ms.nan) => IsInteger(heap[i].ms)
    /\ (Done /\ input.op \in TimeMakers /\ outcome.kind = "return")
          => /\ heap[outcome.value].class = "Time"
             /\ IF ComputedMs.nan THEN MadeMs.nan ELSE IsFloorOf(MadeMs, ComputedMs)
    /\ (Called("Time.toSeconds") /\ ~SelfMs.nan)
          => /\ outcome.kind = "return"
             /\ IsInteger(outcome.value)
             /\ NumLessEq(NumMul(outcome.value, Num(1000, 0)), SelfMs)
             /\ NumLess(SelfMs, NumMul(NumAdd(outcome.value, Num(1, 0)), Num(1000, 0)))
    /\ (Called("Time.seconds") /\ IsInteger(input.n))
          => outcome.kind = "return" /\ NumEq(toSeconds(MadeMs), input.n)
    /\ (Done /\ input.op \in {"Time.millis", "Time.date", "Time.iso"} /\ IsInteger(input.n))
          => outcome.kind = "return" /\ NumEq(MadeMs, input.n)
    /\ (Called("Time.toMillis") /\ ~SelfMs.nan)
          => outcome = Returned(SelfMs) /\ IsInteger(outcome.value)
    /\ (Called("Time.diff") /\ input.of # 0 /\ ~SelfMs.nan /\ ~OtherMs.nan)
          => outcome.kind = "return" /\ IsInteger(MadeMs)

\* Time.millis(11.5) holds 11
C29_Witness ==
    /\ Called("Time.millis")
    /\ input.n = Num(115, 0 - 1)
    /\ outcome.kind = "return"
    /\ MadeMs = Num(11, 0)

\* C30: parseDuration fails with 'could not parse' exactly when the trimmed input is
\* nothing but one sign character; a failure on a text that has something after the sign
\* is 'unexpected characters' or 'unknown unit'; and no input returns a value unless the
\* bare-number path was taken or at least one component was matched.
C30_CouldNotParse ==
    (Done /\ IsText)
        => /\ (outcome.kind = "throw" /\ outcome.message = "could not parse")
                 <=> trim(input.chars) \in {<<"-">>, <<"+">>}
           /\ outcome.message = "could not parse" => outcome = Thrown("could not parse", <<>>, input.chars)
           /\ trim(input.chars) # <<>>
                 => LET rest == StripSign(trim(input.chars)).parseStr
                    IN  /\ (rest # <<>> /\ outcome.kind = "throw")
                              => outcome.message \in {"unexpected characters", "unknown unit"}
                        /\ outcome.kind = "return"
                              => IsBareNumber(rest) \/ AllMatches(rest, 0) # <<>>
           /\ trim(input.chars) = <<>> => outcome.kind = "throw"

\* a minus sign followed by white space could not be parsed
C30_Witness ==
    /\ Done
    /\ input = Text(<<"-", " ">>)
    /\ outcome = Thrown("could not parse", <<>>, <<"-", " ">>)
====
